---- MODULE Spec2Model ----
(***************************************************************************)
(* Model of the agent-response aggregation pipeline of                     *)
(* services/agent_service.py (AgentChatService) and of the API boundary    *)
(* of api.py (create_chat_completion).                                     *)
(*                                                                         *)
(* Text is modelled at the character level: a Python str is a sequence of  *)
(* one-character strings, so that the figure pattern, str.strip, str.split *)
(* and base64 validation are computed, not assumed.                        *)
(***************************************************************************)
EXTENDS Integers, Sequences, FiniteSets, TLC

\* Python's None where a str is expected: a sequence no str equals
None == << "<None>" >>

(***************************************************************************)
(* Characters and character classes                                        *)
(***************************************************************************)
UpperSeq == << "A","B","C","D","E","F","G","H","I","J","K","L","M",
               "N","O","P","Q","R","S","T","U","V","W","X","Y","Z" >>
LowerSeq == << "a","b","c","d","e","f","g","h","i","j","k","l","m",
               "n","o","p","q","r","s","t","u","v","w","x","y","z" >>
Upper == { UpperSeq[k] : k \in 1..26 }
Lower == { LowerSeq[k] : k \in 1..26 }
Digit == { "0","1","2","3","4","5","6","7","8","9" }
Alnum == Upper \cup Lower \cup Digit

\* \s of the pattern, and the characters str.strip() / str.split() remove
Whitespace == { " ", "\t", "\n", "\r", "\f" }
\* [a-zA-Z0-9.+\-] of the pattern
MimeClass == Alnum \cup { ".", "+", "-" }
\* [A-Za-z0-9+/=\s] of the pattern
PayloadClass == Alnum \cup { "+", "/", "=" } \cup Whitespace
\* the base64 alphabet without the pad character
B64Digit == Alnum \cup { "+", "/" }
\* [A-Za-z0-9._-] : the characters re.sub keeps in a name
SafeClass == Alnum \cup { ".", "_", "-" }

\* str.lower() on one character
LowerChar(c) ==
  IF c \in Upper THEN LowerSeq[CHOOSE k \in 1..26 : UpperSeq[k] = c] ELSE c

(***************************************************************************)
(* Literals of the pattern and of _replace                                 *)
(***************************************************************************)
FIGURE_LIT == << "F","I","G","U","R","E" >>
DATA_IMAGE_LIT == << "d","a","t","a",":","i","m","a","g","e","/" >>
BASE64_LIT == << ";","b","a","s","e","6","4","," >>
DATA_PREFIX == << "d","a","t","a",":" >>
DEFAULT_TITLE == << "f","i","g","u","r","e" >>
DEFAULT_MIME == << "i","m","a","g","e","/","p","n","g" >>
PNG_EXT == << ".","p","n","g" >>
SEE_FIGURE == << "[","S","e","e"," ","f","i","g","u","r","e",":"," " >>

(***************************************************************************)
(* str helpers                                                             *)
(***************************************************************************)
\* least element of a non-empty set of indices
MinOf(S) == CHOOSE k \in S : \A j \in S : k <= j

\* last index of the maximal run of characters of cls that starts at i
\* (i - 1 when the run is empty)
RunEnd(s, i, cls) ==
  LET stops == { k \in i..Len(s) : s[k] \notin cls }
  IN IF i > Len(s) THEN i - 1
     ELSE IF stops = {} THEN Len(s) ELSE MinOf(stops) - 1

\* the same for a negated class [^...]
RunEndNot(s, i, excl) ==
  LET stops == { k \in i..Len(s) : s[k] \in excl }
  IN IF i > Len(s) THEN i - 1
     ELSE IF stops = {} THEN Len(s) ELSE MinOf(stops) - 1

\* the literal lit occurs in s at index i
HasLit(s, i, lit) ==
  /\ i >= 1
  /\ i + Len(lit) - 1 <= Len(s)
  /\ \A k \in 1..Len(lit) : s[i + k - 1] = lit[k]

Slice(s, from, to) == IF from > to THEN << >> ELSE SubSeq(s, from, to)

RECURSIVE LastNonWs(_, _)
LastNonWs(s, i) ==
  IF i >= 1 /\ s[i] \in Whitespace THEN LastNonWs(s, i - 1) ELSE i

\* str.strip()
Strip(s) == Slice(s, RunEnd(s, 1, Whitespace) + 1, LastNonWs(s, Len(s)))

IsNotWs(c) == c \notin Whitespace

\* "".join(s.split())
RemoveWhitespace(s) == SelectSeq(s, IsNotWs)

RECURSIVE IndexOf(_, _, _)
\* index of the first ch in s at or after i, 0 when there is none
IndexOf(s, ch, i) ==
  IF i > Len(s) THEN 0 ELSE IF s[i] = ch THEN i ELSE IndexOf(s, ch, i + 1)

\* s.split(ch, 1)[0]
BeforeFirst(s, ch) ==
  LET k == IndexOf(s, ch, 1) IN IF k = 0 THEN s ELSE Slice(s, 1, k - 1)

\* s.split(ch, 1)[1], defined when ch occurs in s
AfterFirst(s, ch) == Slice(s, IndexOf(s, ch, 1) + 1, Len(s))

\* s.lower().endswith(suffix), suffix in lower case
LowerEndsWith(s, suffix) ==
  /\ Len(s) >= Len(suffix)
  /\ \A k \in 1..Len(suffix) :
        LowerChar(s[Len(s) - Len(suffix) + k]) = suffix[k]

RECURSIVE Join(_)
\* "".join(chunks)
Join(chunks) ==
  IF chunks = << >> THEN << >> ELSE Head(chunks) \o Join(Tail(chunks))

(***************************************************************************)
(* base64.b64decode(s, validate=True) succeeds, as CPython 3.11 decides    *)
(* it (binascii.a2b_base64 in strict mode): digits, then padding only;     *)
(* the padding completes the last quad, and padding after a complete       *)
(* non-empty quad is let through.                                          *)
(***************************************************************************)
IsValidB64(s) ==
  LET n == RunEnd(s, 1, B64Digit)
      p == RunEnd(s, n + 1, {"="}) - n
  IN /\ \A k \in 1..Len(s) : s[k] \in B64Digit \cup {"="}
     /\ n + p = Len(s)
     /\ CASE n % 4 = 0 -> (n > 0 \/ p = 0)
          [] n % 4 = 1 -> FALSE
          [] n % 4 = 2 -> p = 2
          [] OTHER     -> p = 1

(***************************************************************************)
(* _FIGURE_DATA_PATTERN, matched at index i of s.  Every repeated class is *)
(* followed by a character outside it, so the greedy match is the only     *)
(* match and no backtracking is involved.                                  *)
(***************************************************************************)
NoMatch(i) ==
  [ok |-> FALSE, start |-> i, end |-> i - 1, title |-> None, data |-> << >>]

\* from the payload at p on: [A-Za-z0-9+/=\s]+ , greedy
MatchPayload(s, i, title, d, p, pEnd) ==
  IF pEnd >= p
    THEN [ok |-> TRUE, start |-> i, end |-> pEnd, title |-> title,
          data |-> Slice(s, d, pEnd)]
    ELSE NoMatch(i)

\* from the mime type at m on: [a-zA-Z0-9.+\-]+;base64,
MatchMime(s, i, title, d, m, mEnd) ==
  IF mEnd >= m /\ HasLit(s, mEnd + 1, BASE64_LIT)
    THEN MatchPayload(s, i, title, d, mEnd + 1 + Len(BASE64_LIT),
                      RunEnd(s, mEnd + 1 + Len(BASE64_LIT), PayloadClass))
    ELSE NoMatch(i)

\* from the data URI at d on: data:image/
MatchData(s, i, title, d) ==
  IF HasLit(s, d, DATA_IMAGE_LIT)
    THEN MatchMime(s, i, title, d, d + Len(DATA_IMAGE_LIT),
                   RunEnd(s, d + Len(DATA_IMAGE_LIT), MimeClass))
    ELSE NoMatch(i)

\* from the colon at c on: :\s*
MatchColon(s, i, title, c) ==
  IF HasLit(s, c, << ":" >>)
    THEN MatchData(s, i, title, RunEnd(s, c + 1, Whitespace) + 1)
    ELSE NoMatch(i)

\* (?:\[(?P<title>[^\]]+)\])? at a, the title running to tEnd
MatchTitle(s, i, a, tEnd) ==
  IF HasLit(s, a, << "[" >>) /\ tEnd >= a + 1 /\ HasLit(s, tEnd + 1, << "]" >>)
    THEN MatchColon(s, i, Slice(s, a + 1, tEnd), tEnd + 2)
    ELSE MatchColon(s, i, None, a)

MatchAt(s, i) ==
  IF HasLit(s, i, FIGURE_LIT)
    THEN MatchTitle(s, i, i + Len(FIGURE_LIT),
                    RunEndNot(s, i + Len(FIGURE_LIT) + 1, {"]"}))
    ELSE NoMatch(i)

RECURSIVE SanitizeFrom(_, _)
\* re.sub(r"[^A-Za-z0-9._-]+", "_", s): each maximal run of characters
\* outside the class becomes one underscore
SanitizeFrom(s, i) ==
  IF i > Len(s) THEN << >>
  ELSE IF s[i] \in SafeClass THEN << s[i] >> \o SanitizeFrom(s, i + 1)
  ELSE << "_" >> \o SanitizeFrom(s, RunEndNot(s, i, SafeClass) + 1)

\* (variant: one underscore for each character outside the class)
SanitizeEach(s) == [i \in 1..Len(s) |-> IF s[i] \in SafeClass THEN s[i] ELSE "_"]

Sanitize(s) == SanitizeFrom(s, 1)

OrElse(s, dflt) == IF s = << >> \/ s = None THEN dflt ELSE s

(***************************************************************************)
(* _replace(match): the artifact a match yields (None for a payload that   *)
(* does not decode) and the text that replaces the match.                  *)
(***************************************************************************)
\* (variant: the payload is not validated)
PayloadValidSkipped(encoded_clean) == TRUE

PayloadValid(encoded_clean) == IsValidB64(encoded_clean)

NoArtifact == [name |-> None, mime_type |-> None, data |-> None, display_name |-> None]

ReplacementFor(whole, shown) == SEE_FIGURE \o shown \o << "]" >>

\* the artifact and the reference, once the payload has decoded
Replaced(whole, mime_type, encoded_clean, safe_name, shown) ==
  [text |-> ReplacementFor(whole, shown),
   hit |-> TRUE,
   artifact |->
     [name |-> IF LowerEndsWith(safe_name, PNG_EXT)
                 THEN safe_name ELSE safe_name \o PNG_EXT,
      mime_type |-> mime_type,
      data |-> encoded_clean,
      display_name |-> shown]]

ReplaceNamed(whole, mime_type, encoded_clean, stripped, safe_name) ==
  Replaced(whole, mime_type, encoded_clean, safe_name, OrElse(stripped, safe_name))

ReplaceParts(whole, title, prefix, encoded_clean) ==
  IF ~PayloadValid(encoded_clean)
    THEN [text |-> whole, hit |-> FALSE, artifact |-> NoArtifact]
    ELSE ReplaceNamed(whole,
           OrElse(BeforeFirst(Slice(prefix, Len(DATA_PREFIX) + 1, Len(prefix)), ";"),
                  DEFAULT_MIME),
           encoded_clean,
           Strip(title),
           Sanitize(OrElse(Strip(title), DEFAULT_TITLE)))

Replace(s, mt) ==
  ReplaceParts(Slice(s, mt.start, mt.end),
               OrElse(mt.title, DEFAULT_TITLE),
               BeforeFirst(mt.data, ","),
               RemoveWhitespace(AfterFirst(mt.data, ",")))

\* index of the leftmost match of the pattern at or after i, 0 for none
NextMatch(s, i) ==
  LET found == { k \in i..Len(s) : MatchAt(s, k).ok }
  IN IF found = {} THEN 0 ELSE MinOf(found)

\* (variant: a match that yields no artifact is removed from the text)
SubstitutedDropping(acc, before, r, start) ==
  [text |-> acc.text \o before \o (IF r.hit THEN r.text ELSE << >>),
   artifacts |-> IF ~r.hit THEN acc.artifacts ELSE Append(acc.artifacts, r.artifact),
   starts |-> IF ~r.hit THEN acc.starts ELSE Append(acc.starts, start)]

\* (variant: a new artifact goes to the front of the list)
SubstitutedNewestFirst(acc, before, r, start) ==
  [text |-> acc.text \o before \o r.text,
   artifacts |-> IF ~r.hit THEN acc.artifacts ELSE << r.artifact >> \o acc.artifacts,
   starts |-> IF ~r.hit THEN acc.starts ELSE << start >> \o acc.starts]

\* acc with the text before the match, and what _replace returned for it
Substituted(acc, before, r, start) ==
  [text |-> acc.text \o before \o r.text,
   artifacts |-> IF ~r.hit THEN acc.artifacts ELSE Append(acc.artifacts, r.artifact),
   starts |-> IF ~r.hit THEN acc.starts ELSE Append(acc.starts, start)]

RECURSIVE SubFrom(_, _, _)
RECURSIVE SubMatch(_, _, _, _)
RECURSIVE SubNext(_, _, _, _)

\* _FIGURE_DATA_PATTERN.sub(_replace, text): the leftmost non-overlapping
\* matches from index i on, each replaced by what _replace returns; acc
\* collects the output so far.  starts records where each match that
\* yielded an artifact began (the origin of the artifact; not a value of
\* the program).
SubFrom(s, i, acc) == SubNext(s, i, acc, NextMatch(s, i))

\* (variant: the text after the last match is dropped)
SubNextNoTail(s, i, acc, k) ==
  IF k = 0 THEN acc
  ELSE SubMatch(s, acc, Slice(s, i, k - 1), MatchAt(s, k))

SubNext(s, i, acc, k) ==
  IF k = 0 THEN [acc EXCEPT !.text = @ \o Slice(s, i, Len(s))]
  ELSE SubMatch(s, acc, Slice(s, i, k - 1), MatchAt(s, k))

SubMatch(s, acc, before, mt) ==
  SubFrom(s, mt.end + 1, Substituted(acc, before, Replace(s, mt), mt.start))

\* AgentChatService._extract_embedded_figures
ExtractEmbeddedFigures(text) ==
  IF text = << >>
    THEN [text |-> text, artifacts |-> << >>, starts |-> << >>]
    ELSE SubFrom(text, 1, [text |-> << >>, artifacts |-> << >>, starts |-> << >>])

(***************************************************************************)
(* bytes, str.encode / bytes.decode and base64.b64encode.  A bytes value   *)
(* is a sequence of numbers 0..255.                                        *)
(***************************************************************************)
\* the printable ASCII characters, code 32 first (code 96, the grave accent,
\* cannot be written in a TLA+ string and is held by a placeholder)
AsciiSeq == << " ","!","\"","#","$","%","&","'","(",")","*","+",",","-",".","/",
              "0","1","2","3","4","5","6","7","8","9",":",";","<","=",">","?",
              "@","A","B","C","D","E","F","G","H","I","J","K","L","M","N","O",
              "P","Q","R","S","T","U","V","W","X","Y","Z","[","\\","]","^","_",
              "<grave>","a","b","c","d","e","f","g","h","i","j","k","l","m","n","o",
              "p","q","r","s","t","u","v","w","x","y","z","{","|","}","~" >>

Ord(c) == 31 + CHOOSE k \in 1..Len(AsciiSeq) : AsciiSeq[k] = c
Chr(n) == AsciiSeq[n - 31]

B64Alphabet ==
  UpperSeq \o LowerSeq \o << "0","1","2","3","4","5","6","7","8","9","+","/" >>

B64Char(n) == B64Alphabet[n + 1]

\* s.encode("utf-8") for a str of printable ASCII characters
EncodeUtf8(s) == [k \in 1..Len(s) |-> Ord(s[k])]

\* b.decode("utf-8") succeeds: the model's byte strings hold no multi-byte
\* sequence, so any byte above 127 makes the decoding raise
Utf8Decodable(b) == \A k \in 1..Len(b) : b[k] \in 32..126

\* b.decode("utf-8"), when it succeeds
DecodeUtf8(b) == [k \in 1..Len(b) |-> Chr(b[k])]

RECURSIVE B64EncodeFrom(_, _)
B64EncodeFrom(b, i) ==
  LET left == Len(b) - i + 1
      b1 == b[i]
      b2 == IF left >= 2 THEN b[i + 1] ELSE 0
      b3 == IF left >= 3 THEN b[i + 2] ELSE 0
      n == b1 * 65536 + b2 * 256 + b3
      c1 == B64Char(n \div 262144)
      c2 == B64Char((n \div 4096) % 64)
      c3 == B64Char((n \div 64) % 64)
      c4 == B64Char(n % 64)
  IN IF left <= 0 THEN << >>
     ELSE IF left = 1 THEN << c1, c2, "=", "=" >>
     ELSE IF left = 2 THEN << c1, c2, c3, "=" >>
     ELSE << c1, c2, c3, c4 >> \o B64EncodeFrom(b, i + 3)

\* base64.b64encode(b).decode("utf-8")
B64Encode(b) == B64EncodeFrom(b, 1)

(***************************************************************************)
(* Bounds of the model                                                     *)
(***************************************************************************)
\* events one turn consumes before its stream ends
MaxEvents == 3
\* segments an input text of the extractor is made of
MaxSegs == 3
\* concurrent callers, users, and calls per caller, of the session registry
NumTurns == 2
NumUsers == 2
MaxCalls == 3

Turns == 1..NumTurns
Users == 1..NumUsers

(***************************************************************************)
(* Strings the model's inputs are made of                                  *)
(***************************************************************************)
S_HI == << "H","i"," " >>
S_DOT == << "." >>
S_PNG_NAME == << "s",".","p","n","g" >>
S_IMAGE_PNG == << "i","m","a","g","e","/","p","n","g" >>
S_OCTET == << "a","p","p","l","i","c","a","t","i","o","n","/","o","c","t","e","t","-","s","t","r","e","a","m" >>
S_ARTIFACT == << "a","r","t","i","f","a","c","t" >>
S_QUJD == << "Q","U","J","D" >>
S_GONE == << "g","o","n","e" >>
S_NOTE == << "n","o","t","e" >>
S_GET_TIME == << "g","e","t","_","t","i","m","e" >>
\* FIGURE[s]: data:image/png;base64,QUJD  (a titled marker, payload valid)
M_TITLED == << "F","I","G","U","R","E","[","s","]",":"," ","d","a","t","a",":","i","m","a","g","e","/","p","n","g",";","b","a","s","e","6","4",",","Q","U","J","D" >>
\* FIGURE: data:image/png;base64,QUJD  (an untitled marker, payload valid)
M_UNTITLED == << "F","I","G","U","R","E",":"," ","d","a","t","a",":","i","m","a","g","e","/","p","n","g",";","b","a","s","e","6","4",",","Q","U","J","D" >>
\* FIGURE[s]: data:image/png;base64,QUJ  (three digits: does not decode)
M_MALFORMED == << "F","I","G","U","R","E","[","s","]",":"," ","d","a","t","a",":","i","m","a","g","e","/","p","n","g",";","b","a","s","e","6","4",",","Q","U","J" >>
\* figure: data:image/png;base64,QUJD  (the marker word in lower case)
M_LOWER == << "f","i","g","u","r","e",":"," ","d","a","t","a",":","i","m","a","g","e","/","p","n","g",";","b","a","s","e","6","4",",","Q","U","J","D" >>
\* the opening and the rest of a marker whose title is the text in between;
\* the payload is wrapped
M_OPEN == << "F","I","G","U","R","E","[" >>
M_REST == << "]",":"," ","d","a","t","a",":","i","m","a","g","e","/","p","n","g",";","b","a","s","e","6","4",",","Q","U"," ","J","D" >>
\* a marker in two fragments, neither of which holds a marker
S_FIGURE == << "F","I","G","U","R","E" >>
S_DATA_URI == << ":"," ","d","a","t","a",":","i","m","a","g","e","/","p","n","g",";","b","a","s","e","6","4",",","Q","U","J","D" >>
\* the bytes b"ABC", whose base64 encoding is QUJD, and bytes that are not UTF-8
B_ABC == << 65, 66, 67 >>
B_BINARY == << 137, 80 >>

(***************************************************************************)
(* Events of the runtime's stream (google.adk events, duck-typed by        *)
(* send_message).  An absent attribute that holds one object is the empty  *)
(* sequence, a present one a sequence of one element.                      *)
(***************************************************************************)
\* a dict is a set of <<key, value>> pairs; NoDict is None where a dict may be
NoDict == { << None, None >> }

\* a bytes-or-str payload: kind is "bytes", "str" or "none" (data is None)
Data(kind, v) == [kind |-> kind, v |-> v]
Blob(data, mime_type, display_name) ==
  [data |-> data, mime_type |-> mime_type, display_name |-> display_name]
OutputFile(content, name, mime_type, display_name) ==
  [content |-> content, name |-> name, mime_type |-> mime_type,
   display_name |-> display_name]

EmptyPart ==
  [text |-> None, function_call |-> << >>, function_response |-> << >>,
   output_files |-> << >>, inline_data |-> << >>]
TextPart(s) == [EmptyPart EXCEPT !.text = s]
CallPart(name, args) ==
  [EmptyPart EXCEPT !.function_call = << [name |-> name, args |-> args] >>]
ResponsePart(name, response) ==
  [EmptyPart EXCEPT
     !.function_response = << [name |-> name, response |-> response] >>]
FilesPart(files) == [EmptyPart EXCEPT !.output_files = files]
InlinePart(blob) == [EmptyPart EXCEPT !.inline_data = << blob >>]

\* parts = << >> stands for an event without content or with no parts;
\* delta is actions.artifact_delta, the (filename, version) items in order
Event(parts, delta) == [parts |-> parts, delta |-> delta]

Events ==
  << Event(<< TextPart(S_HI) >>, << >>),
     Event(<< TextPart(M_TITLED) >>, << >>),
     Event(<< TextPart(<< " " >>) >>, << >>),
     Event(<< TextPart(S_DOT), CallPart(S_GET_TIME, NoDict) >>, << >>),
     Event(<< ResponsePart(S_GET_TIME, { << S_NOTE, S_HI >> }) >>, << >>),
     Event(<< FilesPart(<< OutputFile(S_QUJD, S_PNG_NAME, S_IMAGE_PNG, None),
                          OutputFile(<< >>, S_NOTE, None, None),
                          OutputFile(S_QUJD, None, None, None) >>) >>, << >>),
     Event(<< InlinePart(Blob(Data("bytes", B_ABC), S_IMAGE_PNG, S_PNG_NAME)) >>,
           << >>),
     Event(<< InlinePart(Blob(Data("str", S_QUJD), None, None)) >>, << >>),
     Event(<< InlinePart(Blob(Data("bytes", B_BINARY), S_IMAGE_PNG, S_PNG_NAME)) >>,
           << >>),
     Event(<< >>, << << S_PNG_NAME, 0 >> >>),
     Event(<< TextPart(S_DOT) >>,
           << << S_GONE, 0 >>, << S_PNG_NAME, 0 >>, << S_NOTE, 0 >> >>),
     Event(<< TextPart(S_FIGURE) >>, << >>),
     Event(<< TextPart(S_DATA_URI) >>, << >>),
     Event(<< TextPart(M_MALFORMED) >>, << >>),
     Event(<< TextPart(M_LOWER) >>, << >>) >>

\* artifact_service.load_artifact(filename, version): the part the store
\* holds, or nothing
LoadArtifact(filename, version) ==
  IF filename = S_PNG_NAME
    THEN << InlinePart(Blob(Data("bytes", B_ABC), S_IMAGE_PNG, None)) >>
  ELSE IF filename = S_NOTE THEN << TextPart(S_HI) >>
  ELSE << >>

\* self._runner.artifact_service is set (InMemoryRunner brings one)
ArtifactServicePresent == TRUE

(***************************************************************************)
(* The loop body of send_message, on the locals of one turn.               *)
(* Every entry carries src, the place of the fragment that produced it     *)
(* (event number in the stream, part number in the event; a fetch counts   *)
(* after the parts).  src is no value of the program.                      *)
(***************************************************************************)
Locals0 ==
  [text_chunks |-> << >>, chunk_src |-> << >>, tool_calls |-> << >>,
   tool_responses |-> << >>, artifacts |-> << >>, seen_artifacts |-> {},
   raised |-> FALSE]

\* Python truthiness of an optional str
Truthy(s) == s # None /\ s # << >>
\* x or dflt, for an optional str
Or(s, dflt) == IF Truthy(s) THEN s ELSE dflt
\* d or {}
DictOr(d) == IF d = NoDict THEN {} ELSE d

Src(ev, part) == [ev |-> ev, part |-> part, fig |-> FALSE]

\* (variant: fragments are joined with a blank)
AddTextSeparated(L, part, src) ==
  IF Truthy(part.text)
    THEN [L EXCEPT !.text_chunks = Append(@, part.text \o << " " >>),
                   !.chunk_src = Append(@, src)]
    ELSE L

\* text_chunks.append(part.text)
AddText(L, part, src) ==
  IF Truthy(part.text)
    THEN [L EXCEPT !.text_chunks = Append(@, part.text),
                   !.chunk_src = Append(@, src)]
    ELSE L

\* tool_calls.append({...})
AddCall(L, part, src) ==
  IF part.function_call # << >>
    THEN [L EXCEPT !.tool_calls =
            Append(@, [name |-> part.function_call[1].name,
                       args |-> DictOr(part.function_call[1].args),
                       src |-> src])]
    ELSE L

\* tool_responses.append({...})
AddResponse(L, part, src) ==
  IF part.function_response # << >>
    THEN [L EXCEPT !.tool_responses =
            Append(@, [name |-> part.function_response[1].name,
                       response |-> DictOr(part.function_response[1].response),
                       src |-> src])]
    ELSE L

\* key in seen_artifacts
Seen(key, seen_artifacts) == key \in seen_artifacts

\* one output file of a code execution result
AddOutputFile(L, f, src) ==
  LET encoded == f.content
      name == Or(f.name, S_ARTIFACT)
      key == << name, encoded >>
  IN IF ~Truthy(encoded) THEN L
     ELSE IF Seen(key, L.seen_artifacts) THEN L
     ELSE [L EXCEPT
             !.artifacts =
                Append(@, [name |-> name,
                           mime_type |-> Or(f.mime_type, S_OCTET),
                           data |-> encoded,
                           display_name |-> Or(f.display_name, name),
                           src |-> src]),
             !.seen_artifacts = @ \cup { key }]

RECURSIVE AddOutputFiles(_, _, _, _)
AddOutputFiles(L, files, i, src) ==
  IF i > Len(files) THEN L
  ELSE AddOutputFiles(AddOutputFile(L, files[i], src), files, i + 1, src)

\* inline and getattr(inline, "data", None)
HasData(inline) ==
  inline # << >> /\ inline[1].data.kind # "none" /\ inline[1].data.v # << >>

\* the first inline_data block: the payload as text, appended without a
\* name and without a look at seen_artifacts; bytes.decode raises
\* UnicodeDecodeError on bytes that are not UTF-8
AddInlineRaw(L, part, src) ==
  LET inline == part.inline_data
      d == inline[1].data
  IN IF ~HasData(inline) THEN L
     ELSE IF d.kind = "bytes" /\ ~Utf8Decodable(d.v)
       THEN [L EXCEPT !.raised = TRUE]
     ELSE [L EXCEPT !.artifacts =
             Append(@, [mime_type |-> Or(inline[1].mime_type, S_OCTET),
                        data |-> IF d.kind = "bytes" THEN DecodeUtf8(d.v) ELSE d.v,
                        display_name |-> inline[1].display_name,
                        src |-> src])]

\* the payload as base64 text: a str that already is base64 is kept, any
\* other str and all bytes are encoded
Normalize(d) ==
  IF d.kind = "str"
    THEN IF IsValidB64(d.v) THEN d.v ELSE B64Encode(EncodeUtf8(d.v))
    ELSE B64Encode(d.v)

\* the second inline_data block
\* (variant: a new artifact is put in front of the list)
AddEncodedFront(L, item, key) ==
  IF Seen(key, L.seen_artifacts) THEN L
  ELSE [L EXCEPT !.artifacts = << item >> \o @,
                 !.seen_artifacts = @ \cup { key }]

AddEncoded(L, item, key) ==
  IF Seen(key, L.seen_artifacts) THEN L
  ELSE [L EXCEPT !.artifacts = Append(@, item),
                 !.seen_artifacts = @ \cup { key }]

AddInlineAs(L, blob, name, encoded, src) ==
  AddEncoded(L,
             [name |-> name,
              mime_type |-> Or(blob.mime_type, S_OCTET),
              data |-> encoded,
              display_name |-> blob.display_name,
              src |-> src],
             << name, encoded >>)

AddInline(L, part, src) ==
  IF ~HasData(part.inline_data) THEN L
  ELSE AddInlineAs(L, part.inline_data[1],
                   Or(part.inline_data[1].display_name, S_ARTIFACT),
                   Normalize(part.inline_data[1].data), src)

\* the body of `for part in content.parts`; an exception ends it
AddInlineUnlessRaised(L, part, src) ==
  IF L.raised THEN L ELSE AddInline(L, part, src)

ProcessPart(L, part, src) ==
  AddInlineUnlessRaised(
    AddInlineRaw(
      AddOutputFiles(
        AddResponse(AddCall(AddText(L, part, src), part, src), part, src),
        part.output_files, 1, src),
      part, src),
    part, src)

RECURSIVE ProcessParts(_, _, _, _)
ProcessParts(L, parts, i, ev) ==
  IF i > Len(parts) \/ L.raised THEN L
  ELSE ProcessParts(ProcessPart(L, parts[i], Src(ev, i)), parts, i + 1, ev)

\* one item of artifact_delta: the fetched part, converted like inline data
AddFetchedAs(L, blob, filename, encoded, src) ==
  AddEncoded(L,
             [name |-> filename,
              mime_type |-> Or(blob.mime_type, S_OCTET),
              data |-> encoded,
              display_name |-> Or(blob.display_name, filename),
              src |-> src],
             << filename, encoded >>)

\* (variant: a fetch that returns nothing fails the turn)
AddFetchedPartStrict(L, artifact_part, filename, src) ==
  IF artifact_part = << >> THEN [L EXCEPT !.raised = TRUE]
  ELSE IF ~HasData(artifact_part[1].inline_data) THEN L
  ELSE AddFetchedAs(L, artifact_part[1].inline_data[1], filename,
                    Normalize(artifact_part[1].inline_data[1].data), src)

\* `if not artifact_part: continue`, then the conversion of lines 164-189
AddFetchedPart(L, artifact_part, filename, src) ==
  IF artifact_part = << >> THEN L
  ELSE IF ~HasData(artifact_part[1].inline_data) THEN L
  ELSE AddFetchedAs(L, artifact_part[1].inline_data[1], filename,
                    Normalize(artifact_part[1].inline_data[1].data), src)

AddFetched(L, filename, version, src) ==
  AddFetchedPart(L, LoadArtifact(filename, version), filename, src)

RECURSIVE ProcessDelta(_, _, _, _, _, _)
\* the loop over artifact_delta.items(); the fetch of item fail_at raises
\* (0: no fetch raises)
ProcessDelta(L, delta, j, ev, nparts, fail_at) ==
  IF j > Len(delta) \/ L.raised THEN L
  ELSE IF j = fail_at THEN [L EXCEPT !.raised = TRUE]
  ELSE ProcessDelta(AddFetched(L, delta[j][1], delta[j][2], Src(ev, nparts + j)),
                    delta, j + 1, ev, nparts, fail_at)

\* `if not content or not getattr(content, "parts", None): continue`
SkipsEvent(e) == e.parts = << >>

\* the body of `async for event in ...` for event e, the ev-th of the stream
\* `if artifact_delta and self._runner.artifact_service`
ProcessFetches(L, e, ev, fail_at) ==
  IF L.raised \/ e.delta = << >> \/ ~ArtifactServicePresent THEN L
  ELSE ProcessDelta(L, e.delta, 1, ev, Len(e.parts), fail_at)

ProcessEvent(L, e, ev, fail_at) ==
  IF SkipsEvent(e) THEN L
  ELSE ProcessFetches(ProcessParts(L, e.parts, 1, ev), e, ev, fail_at)

(***************************************************************************)
(* After the stream: the text is joined, trimmed and passed through the    *)
(* extractor, whose artifacts are added to the list.                       *)
(***************************************************************************)
RECURSIVE ChunkAt(_, _, _)
\* the chunk of chunks (from the i-th on) that holds the p-th character
ChunkAt(chunks, i, p) ==
  IF i >= Len(chunks) \/ p <= Len(chunks[i]) THEN i
  ELSE ChunkAt(chunks, i + 1, p - Len(chunks[i]))

\* the fragment in which the marker that starts at index start of the
\* trimmed text begins (no value of the program)
AsFigure(c) == [ev |-> c.ev, part |-> c.part, fig |-> TRUE]

FigureSrc(L, start) ==
  AsFigure(L.chunk_src[ChunkAt(L.text_chunks, 1,
                               start + RunEnd(Join(L.text_chunks), 1, Whitespace))])

\* artifacts.extend(embedded_artifacts)
ExtendArtifacts(artifacts, seen_artifacts, embedded) == artifacts \o embedded

CombinedText(text_chunks) == Strip(Join(text_chunks))

\* the dict send_message returns
\* the extractor's artifacts, each with the place its marker came from
Embedded(L, ex) ==
  [k \in 1..Len(ex.artifacts) |->
     [name |-> ex.artifacts[k].name,
      mime_type |-> ex.artifacts[k].mime_type,
      data |-> ex.artifacts[k].data,
      display_name |-> ex.artifacts[k].display_name,
      src |-> FigureSrc(L, ex.starts[k])]]

ResultWith(L, ex) ==
  [text |-> ex.text,
   tool_calls |-> L.tool_calls,
   tool_responses |-> L.tool_responses,
   artifacts |-> ExtendArtifacts(L.artifacts, L.seen_artifacts, Embedded(L, ex))]

ResultOf(L) == ResultWith(L, ExtractEmbeddedFigures(CombinedText(L.text_chunks)))

(***************************************************************************)
(* The API boundary, create_chat_completion                                *)
(***************************************************************************)
\* HTTPException(500, "Failed to retrieve agent response.")
ServiceFailure == [status |-> 500, detail |-> "Failed to retrieve agent response."]
\* what the web framework answers when the handler itself raises
UnhandledFailure == [status |-> 500, detail |-> "Internal Server Error"]

\* Artifact(**item) validates: name, mime_type and data are required
ValidArtifact(item) == { "name", "mime_type", "data" } \subseteq DOMAIN item

\* (variant: the boundary answers with what the turn had collected)
OnExceptionPartial(L) ==
  [status |-> 200, text |-> Join(L.text_chunks), tool_calls |-> L.tool_calls,
   tool_responses |-> L.tool_responses, artifacts |-> L.artifacts]

\* `except Exception`: what the boundary answers when send_message raised
\* with the locals L collected so far
OnException(L) == ServiceFailure

\* ChatResponse(...) built from the returned dict
OnResult(r) ==
  IF \E k \in 1..Len(r.artifacts) : ~ValidArtifact(r.artifacts[k])
    THEN UnhandledFailure
    ELSE [status |-> 200,
          text |-> r.text,
          tool_calls |-> [k \in 1..Len(r.tool_calls) |->
                            [name |-> r.tool_calls[k].name,
                             args |-> r.tool_calls[k].args]],
          tool_responses |-> [k \in 1..Len(r.tool_responses) |->
                                [name |-> r.tool_responses[k].name,
                                 response |-> r.tool_responses[k].response]],
          artifacts |-> [k \in 1..Len(r.artifacts) |->
                           [name |-> r.artifacts[k].name,
                            mime_type |-> r.artifacts[k].mime_type,
                            data |-> r.artifacts[k].data,
                            display_name |-> r.artifacts[k].display_name]]]

(***************************************************************************)
(* The chat UI, chat_ui.py                                                 *)
(***************************************************************************)
\* _FIGURE_PATTERN is the service's pattern compiled with re.IGNORECASE:
\* a letter of a literal matches in either case (the classes hold both
\* cases already)
HasLitAnyCase(s, i, lit) ==
  /\ i >= 1
  /\ i + Len(lit) - 1 <= Len(s)
  /\ \A k \in 1..Len(lit) : LowerChar(s[i + k - 1]) = LowerChar(lit[k])

UiMatchMime(s, i, title, d, m, mEnd) ==
  IF mEnd >= m /\ HasLitAnyCase(s, mEnd + 1, BASE64_LIT)
    THEN MatchPayload(s, i, title, d, mEnd + 1 + Len(BASE64_LIT),
                      RunEnd(s, mEnd + 1 + Len(BASE64_LIT), PayloadClass))
    ELSE NoMatch(i)

UiMatchData(s, i, title, d) ==
  IF HasLitAnyCase(s, d, DATA_IMAGE_LIT)
    THEN UiMatchMime(s, i, title, d, d + Len(DATA_IMAGE_LIT),
                     RunEnd(s, d + Len(DATA_IMAGE_LIT), MimeClass))
    ELSE NoMatch(i)

UiMatchColon(s, i, title, c) ==
  IF HasLit(s, c, << ":" >>)
    THEN UiMatchData(s, i, title, RunEnd(s, c + 1, Whitespace) + 1)
    ELSE NoMatch(i)

UiMatchTitle(s, i, a, tEnd) ==
  IF HasLit(s, a, << "[" >>) /\ tEnd >= a + 1 /\ HasLit(s, tEnd + 1, << "]" >>)
    THEN UiMatchColon(s, i, Slice(s, a + 1, tEnd), tEnd + 2)
    ELSE UiMatchColon(s, i, None, a)

\* _FIGURE_PATTERN matched at index i of s
UiMatchAt(s, i) ==
  IF HasLitAnyCase(s, i, FIGURE_LIT)
    THEN UiMatchTitle(s, i, i + Len(FIGURE_LIT),
                      RunEndNot(s, i + Len(FIGURE_LIT) + 1, {"]"}))
    ELSE NoMatch(i)

UiNextMatch(s, i) ==
  LET found == { k \in i..Len(s) : UiMatchAt(s, k).ok }
  IN IF found = {} THEN 0 ELSE MinOf(found)

\* (match.group("title") or "figure").strip()
UiTitle(mt) == Strip(Or(mt.title, DEFAULT_TITLE))

\* _replace of _extract_inline_figures: a match whose data does not start
\* with "data:" is returned as it is; any other match becomes a reference
\* and a figure.  The payload is not decoded here.
UiReplace(s, mt) ==
  IF ~HasLit(mt.data, 1, DATA_PREFIX)
    THEN [text |-> Slice(s, mt.start, mt.end), figures |-> << >>]
    ELSE [text |-> SEE_FIGURE \o Or(UiTitle(mt), DEFAULT_TITLE) \o << "]" >>,
          figures |-> << [title |-> Or(UiTitle(mt), DEFAULT_TITLE),
                          data_uri |-> RemoveWhitespace(mt.data)] >>]

RECURSIVE UiSubFrom(_, _, _)
RECURSIVE UiSubMatch(_, _, _, _)

\* _FIGURE_PATTERN.sub(_replace, text) from index i on
UiSubFrom(s, i, acc) ==
  IF UiNextMatch(s, i) = 0
    THEN [acc EXCEPT !.text = @ \o Slice(s, i, Len(s))]
    ELSE UiSubMatch(s, acc, Slice(s, i, UiNextMatch(s, i) - 1),
                    UiMatchAt(s, UiNextMatch(s, i)))

UiSubMatch(s, acc, before, mt) ==
  UiSubFrom(s, mt.end + 1,
            [text |-> acc.text \o before \o UiReplace(s, mt).text,
             figures |-> acc.figures \o UiReplace(s, mt).figures])

\* _extract_inline_figures
ExtractInlineFigures(text) ==
  IF text = << >> THEN [text |-> text, figures |-> << >>]
  ELSE UiSubFrom(text, 1, [text |-> << >>, figures |-> << >>])

\* _build_data_uri
BuildDataUri(mime_type, data) ==
  IF HasLit(data, 1, DATA_PREFIX) THEN data
  ELSE DATA_PREFIX \o mime_type \o BASE64_LIT \o data

UpperChar(c) ==
  IF c \in Lower THEN UpperSeq[CHOOSE k \in 1..26 : LowerSeq[k] = c] ELSE c

\* str.title(): a letter that follows a letter is lowered, any other
\* letter is raised
Title(s) ==
  [k \in 1..Len(s) |->
     IF k > 1 /\ s[k - 1] \in Upper \cup Lower
       THEN LowerChar(s[k]) ELSE UpperChar(s[k])]

RECURSIVE SummaryLines(_)
\* "\n".join(f"- {key.title()}: {value}" ...) over the items of the dict
\* (the values of the modelled dicts are strs; a dict of several items is
\* taken in some order)
SummaryLines(d) ==
  IF d = {} THEN << >>
  ELSE LET item == CHOOSE p \in d : TRUE
       IN << "-", " " >> \o Title(item[1]) \o << ":", " " >> \o item[2]
            \o (IF d = { item } THEN << >>
                ELSE << "\n" >> \o SummaryLines(d \ { item }))

SUMMARY_HEAD == << "L","a","s","t"," ","t","o","o","l"," ","r","e","s","p","o","n","s","e",":","\n" >>

\* _format_tool_summary
FormatToolSummary(tool_payload) ==
  IF tool_payload = {} THEN << >>
  ELSE SUMMARY_HEAD \o SummaryLines(tool_payload)

NO_RESPONSE == << "I"," ","w","a","s","n","'","t"," ","a","b","l","e"," ","t","o"," ","g","e","n","e","r","a","t","e"," ","a"," ","r","e","s","p","o","n","s","e","."," ","P","l","e","a","s","e"," ","t","r","y"," ","a","s","k","i","n","g"," ","i","n"," ","a"," ","d","i","f","f","e","r","e","n","t"," ","w","a","y","." >>
GENERATED_FIGURE == << "G","e","n","e","r","a","t","e","d"," ","f","i","g","u","r","e" >>
GENERATED_ARTIFACT == << "G","e","n","e","r","a","t","e","d"," ","a","r","t","i","f","a","c","t" >>
SESSION_LABEL == << "*","*","S","e","s","s","i","o","n"," ","I","D",":","*","*"," " >>

\* _format_session_label; the session id stands between two grave accents
FormatSessionLabel(session_id) ==
  SESSION_LABEL \o << "<grave>", session_id, "<grave>" >>

\* cleaned_message = (message or "").strip()
Cleaned(message) == Strip(Or(message, << >>))

\* a message of the chat history; an image message holds the file written
\* from a data URI (content is that URI) and its alt text
TextMessage(role, content) ==
  [role |-> role, kind |-> "text", content |-> content, alt_text |-> None]
ImageMessage(data_uri, alt_text) ==
  [role |-> "assistant", kind |-> "image", content |-> data_uri,
   alt_text |-> alt_text]

\* artifact.get(key)
Get(artifact, key) == IF key \in DOMAIN artifact THEN artifact[key] ELSE None

\* lines 73-82: the reply before the extraction
ReplyWithSummary(reply, summary) ==
  IF summary = << >> THEN reply ELSE reply \o << "\n", "\n" >> \o summary

ReplyOf(text, tool_responses) ==
  IF ~Truthy(text) /\ tool_responses # << >>
    THEN ReplyWithSummary(Or(text, NO_RESPONSE),
           FormatToolSummary(DictOr(tool_responses[Len(tool_responses)].response)))
    ELSE Or(text, NO_RESPONSE)

ReplyText(r) == ReplyOf(Strip(Or(r.text, << >>)), r.tool_responses)

\* gr_utils.decode_base64_to_file(uri) returned a file; the library is not
\* part of the source: rejected is the set of URIs for which it raises
\* ValueError
Decodes(uri, rejected) == uri \notin rejected

\* lines 92-110, for one artifact: nothing, or one image message
ArtifactImage(artifact, rejected) ==
  IF ~Truthy(Get(artifact, "data")) THEN << >>
  ELSE IF ~Decodes(BuildDataUri(Or(Get(artifact, "mime_type"), S_OCTET),
                                artifact.data), rejected)
    THEN << >>
  ELSE << ImageMessage(BuildDataUri(Or(Get(artifact, "mime_type"), S_OCTET),
                                    artifact.data),
                       Or(Get(artifact, "display_name"),
                          Or(Get(artifact, "name"), GENERATED_ARTIFACT))) >>

\* lines 112-124, for one inline figure
FigureImage(figure, rejected) ==
  IF ~Decodes(figure.data_uri, rejected) THEN << >>
  ELSE << ImageMessage(figure.data_uri, Or(figure.title, GENERATED_FIGURE)) >>

RECURSIVE ArtifactImages(_, _)
ArtifactImages(artifacts, rejected) ==
  IF artifacts = << >> THEN << >>
  ELSE ArtifactImage(Head(artifacts), rejected)
         \o ArtifactImages(Tail(artifacts), rejected)

RECURSIVE FigureImages(_, _)
FigureImages(figures, rejected) ==
  IF figures = << >> THEN << >>
  ELSE FigureImage(Head(figures), rejected)
         \o FigureImages(Tail(figures), rejected)

\* (variant: the images are put before the text reply)
ImagesFirst(reply, images) ==
  images \o (IF reply # << >> THEN << TextMessage("assistant", reply) >> ELSE << >>)

\* assistant_messages: the text reply when there is one, then the images
AssistantMessages(reply, images) ==
  (IF reply # << >> THEN << TextMessage("assistant", reply) >> ELSE << >>)
    \o images

\* lines 126-127: `if not assistant_messages`
OrReply(assistant_messages, reply) ==
  IF assistant_messages = << >>
    THEN << TextMessage("assistant", reply) >> ELSE assistant_messages

\* what _handle_message returns
Returned(history, session_id) ==
  [history |-> history, textbox |-> << >>, session_id |-> session_id,
   label |-> FormatSessionLabel(session_id)]

\* lines 84-142, from the reply on
HandleReply(cleaned, history, session_id, ex, artifacts, rejected) ==
  Returned(history \o << TextMessage("user", cleaned) >>
             \o OrReply(AssistantMessages(ex.text,
                          ArtifactImages(artifacts, rejected)
                            \o FigureImages(ex.figures, rejected)),
                        ex.text),
           session_id)

\* _handle_message after send_message returned r
HandleMessage(cleaned, history, session_id, r, rejected) ==
  HandleReply(cleaned, history, session_id,
              IF ReplyText(r) # << >>
                THEN ExtractInlineFigures(ReplyText(r))
                ELSE [text |-> ReplyText(r), figures |-> << >>],
              r.artifacts, rejected)

\* the data URIs _handle_message hands to the decoder for the result r
UrisOf(r) ==
  { BuildDataUri(Or(Get(r.artifacts[k], "mime_type"), S_OCTET),
                 r.artifacts[k].data) :
      k \in { j \in 1..Len(r.artifacts) : Truthy(Get(r.artifacts[j], "data")) } }
    \cup { ExtractInlineFigures(ReplyText(r)).figures[k].data_uri :
             k \in 1..Len(ExtractInlineFigures(ReplyText(r)).figures) }

(***************************************************************************)
(* Input texts of the extractor                                            *)
(***************************************************************************)
\* a title with a run of characters outside the safe class, ending in .PNG
T_RUN_PNG == << "a","!","!",".","P","N","G" >>

Segments ==
  << M_TITLED, M_UNTITLED, M_MALFORMED, M_OPEN, M_REST,
     << "D" >>, << "=" >>, << " " >>, << "." >>, T_RUN_PNG >>

SegSeqs == UNION { [1..n -> 1..Len(Segments)] : n \in 0..MaxSegs }

TextOf(segs) == Join([k \in 1..Len(segs) |-> Segments[segs[k]]])

NoExtraction == [text |-> None, artifacts |-> << >>, starts |-> << >>]

(***************************************************************************)
(* State                                                                   *)
(***************************************************************************)
VARIABLES
  sessions,   \* self._sessions: user_id -> session id, 0 for no entry
  lock,       \* self._lock: the turn that holds it, 0 when free
  next_id,    \* sessions the runtime's session service has created
  pc,         \* where each turn (request) is
  user,       \* user_id of the turn
  session,    \* the local `session` of send_message (0: not yet set)
  locals,     \* text_chunks, tool_calls, tool_responses, artifacts, seen_artifacts
  consumed,   \* the events the turn has consumed (indices into Events)
  result,     \* what send_message returned: << >> or << dict >>
  response,   \* what the boundary answered: << >> or << response >>
  calls,      \* requests started so far
  created,    \* user_id -> successful create_session calls
  first,      \* user_id -> the session the first successful call returned
  returned,   \* the <<user_id, session>> pairs _ensure_session returned
  raced,      \* the turn waited for the lock while a creation for its user ran
  ex_pc, ex_segs, ex_text, ex_out, ex_again,  \* a run of the extractor alone
  ui_pc,      \* where a call of _handle_message is
  ui_message, \* its message
  ui_history, \* its history
  ui_session, \* its session_id
  ui_out      \* what it returned: << >> or << the returned values >>

vars == << sessions, lock, next_id, pc, user, session, locals, consumed,
           result, response, calls, created, first, returned, raced,
           ex_pc, ex_segs, ex_text, ex_out, ex_again,
           ui_pc, ui_message, ui_history, ui_session, ui_out >>

registryVars == << sessions, lock, next_id, created, first, returned, raced >>
turnVars == << pc, user, session, locals, consumed, result, response, calls >>
exVars == << ex_pc, ex_segs, ex_text, ex_out, ex_again >>
uiVars == << ui_pc, ui_message, ui_history, ui_session, ui_out >>

InitService ==
  /\ sessions = [u \in Users |-> 0]
  /\ lock = 0
  /\ next_id = 0
  /\ pc = [t \in Turns |-> "idle"]
  /\ user = [t \in Turns |-> 0]
  /\ session = [t \in Turns |-> 0]
  /\ locals = [t \in Turns |-> Locals0]
  /\ consumed = [t \in Turns |-> << >>]
  /\ result = [t \in Turns |-> << >>]
  /\ response = [t \in Turns |-> << >>]
  /\ calls = 0
  /\ created = [u \in Users |-> 0]
  /\ first = [u \in Users |-> 0]
  /\ returned = {}
  /\ raced = [t \in Turns |-> FALSE]

\* no call of _handle_message
UiOff ==
  /\ ui_pc = "off"
  /\ ui_message = << >>
  /\ ui_history = << >>
  /\ ui_session = 0
  /\ ui_out = << >>

Init ==
  /\ InitService
  /\ ex_pc = "off"
  /\ ex_segs = << >>
  /\ ex_text = << >>
  /\ ex_out = NoExtraction
  /\ ex_again = NoExtraction
  /\ UiOff

InitExtract ==
  /\ InitService
  /\ ex_pc = "input"
  /\ ex_segs \in SegSeqs
  /\ ex_text = TextOf(ex_segs)
  /\ ex_out = NoExtraction
  /\ ex_again = NoExtraction
  /\ UiOff

\* the messages and the histories _handle_message is called with
UiMessages == { None, << >>, << " ", "\n" >>, S_HI }
UiHistories ==
  { << >>,
    << TextMessage("user", S_DOT), TextMessage("assistant", S_HI),
       ImageMessage(DATA_PREFIX \o S_IMAGE_PNG \o BASE64_LIT \o S_QUJD, S_NOTE) >> }

InitUi ==
  /\ InitService
  /\ ex_pc = "off"
  /\ ex_segs = << >>
  /\ ex_text = << >>
  /\ ex_out = NoExtraction
  /\ ex_again = NoExtraction
  /\ ui_pc = "input"
  /\ ui_message \in UiMessages
  /\ ui_history \in UiHistories
  /\ ui_session \in Users
  /\ ui_out = << >>

(***************************************************************************)
(* _ensure_session                                                         *)
(***************************************************************************)
\* (variant: the set of seen keys belongs to the service, not to the call)
SharedSeen(ls, t) ==
  [Locals0 EXCEPT !.seen_artifacts = UNION { ls[x].seen_artifacts : x \in Turns }]

\* the locals of a call of send_message are new lists and a new set
FreshLocals(ls, t) == Locals0

\* a request arrives: create_chat_completion calls send_message, which
\* calls _ensure_session
StartTurn(t, u) ==
  /\ pc[t] = "idle"
  /\ calls < MaxCalls
  /\ calls' = calls + 1
  /\ pc' = [pc EXCEPT ![t] = "wait_lock"]
  /\ user' = [user EXCEPT ![t] = u]
  /\ session' = [session EXCEPT ![t] = 0]
  /\ locals' = [locals EXCEPT ![t] = FreshLocals(locals, t)]
  /\ consumed' = [consumed EXCEPT ![t] = << >>]
  /\ result' = [result EXCEPT ![t] = << >>]
  /\ response' = [response EXCEPT ![t] = << >>]
  /\ raced' = [raced EXCEPT ![t] = FALSE]
  /\ UNCHANGED << sessions, lock, next_id, created, first, returned, exVars, uiVars >>

\* (variant: no lock)
LockIgnored(t) == TRUE

\* `async with self._lock` lets the caller in
LockFree(t) == lock = 0

AcquireLock(t) ==
  /\ pc[t] = "wait_lock"
  /\ LockFree(t)
  /\ lock' = t
  /\ pc' = [pc EXCEPT ![t] = "locked"]
  /\ UNCHANGED << sessions, next_id, created, first, returned, raced,
                  user, session, locals, consumed, result, response, calls, exVars, uiVars >>

\* (variant: the lock stays with the caller after _ensure_session returns)
HeldAfterReturn(t) == t

\* leaving `async with self._lock` by `return session`: the lock is free
ReleasedOnReturn(t) == 0

\* (variant: the lock stays with the caller when create_session raises)
HeldAfterRaise(t) == t

\* leaving `async with self._lock` by an exception: the lock is free
ReleasedOnRaise(t) == 0

\* (variant: a session is created at every call)
NeedsCreateAlways(s) == TRUE

\* `if session is None`
NeedsCreate(s) == s = 0

\* self._sessions.get(user_id); a session that exists is returned and the
\* lock released, otherwise create_session is awaited with the lock held
CheckSession(t) ==
  /\ pc[t] = "locked"
  /\ IF NeedsCreate(sessions[user[t]])
       THEN /\ pc' = [pc EXCEPT ![t] = "creating"]
            /\ raced' = [x \in Turns |->
                           raced[x] \/ (x # t /\ pc[x] = "wait_lock" /\ user[x] = user[t])]
            /\ UNCHANGED << lock, session, returned >>
       ELSE /\ pc' = [pc EXCEPT ![t] = "run"]
            /\ session' = [session EXCEPT ![t] = sessions[user[t]]]
            /\ returned' = returned \cup { << user[t], sessions[user[t]] >> }
            /\ lock' = ReleasedOnReturn(t)
            /\ UNCHANGED raced
  /\ UNCHANGED << sessions, next_id, created, first,
                  user, locals, consumed, result, response, calls, exVars, uiVars >>

\* (variant: the entry is written before create_session is awaited)
RegisteredBeforeCreate(ss, u) == [ss EXCEPT ![u] = -1]

\* self._sessions when create_session raised: line 47 was not reached
RegistryOnRaise(ss, u) == ss

\* create_session returns a new session; it is stored and returned
CreateReturns(t) ==
  /\ pc[t] = "creating"
  /\ next_id' = next_id + 1
  /\ sessions' = [sessions EXCEPT ![user[t]] = next_id + 1]
  /\ created' = [created EXCEPT ![user[t]] = @ + 1]
  /\ first' = [first EXCEPT ![user[t]] = IF @ = 0 THEN next_id + 1 ELSE @]
  /\ session' = [session EXCEPT ![t] = next_id + 1]
  /\ returned' = returned \cup { << user[t], next_id + 1 >> }
  /\ lock' = ReleasedOnReturn(t)
  /\ pc' = [pc EXCEPT ![t] = "run"]
  /\ UNCHANGED << raced, user, locals, consumed, result, response, calls, exVars, uiVars >>

\* create_session raises: the lock is released on the way out, and the
\* exception reaches the boundary
CreateRaises(t) ==
  /\ pc[t] = "creating"
  /\ lock' = ReleasedOnRaise(t)
  /\ pc' = [pc EXCEPT ![t] = "failed"]
  /\ locals' = [locals EXCEPT ![t].raised = TRUE]
  /\ response' = [response EXCEPT ![t] = << OnException(locals[t]) >>]
  /\ sessions' = RegistryOnRaise(sessions, user[t])
  /\ UNCHANGED << next_id, created, first, returned, raced,
                  user, session, consumed, result, calls, exVars, uiVars >>

(***************************************************************************)
(* send_message, the stream loop                                           *)
(***************************************************************************)
\* the fetches an event triggers
Fetches(e) ==
  IF SkipsEvent(e) \/ ~ArtifactServicePresent THEN 0 ELSE Len(e.delta)

\* the stream yields event Events[k]; the loop body runs on it.  The
\* fetch of item fail_at of its delta raises (0: none does).
ConsumeEvent(t, k, fail_at) ==
  /\ pc[t] = "run"
  /\ Len(consumed[t]) < MaxEvents
  /\ fail_at \in 0..Fetches(Events[k])
  /\ locals' = [locals EXCEPT
                  ![t] = ProcessEvent(@, Events[k], Len(consumed[t]) + 1, fail_at)]
  /\ consumed' = [consumed EXCEPT ![t] = Append(@, k)]
  /\ IF locals'[t].raised
       THEN /\ pc' = [pc EXCEPT ![t] = "failed"]
            /\ response' = [response EXCEPT ![t] = << OnException(locals'[t]) >>]
       ELSE UNCHANGED << pc, response >>
  /\ UNCHANGED << registryVars, user, session, result, calls, exVars, uiVars >>

\* run_async raises instead of yielding an event
StreamRaises(t) ==
  /\ pc[t] = "run"
  /\ pc' = [pc EXCEPT ![t] = "failed"]
  /\ locals' = [locals EXCEPT ![t].raised = TRUE]
  /\ response' = [response EXCEPT ![t] = << OnException(locals[t]) >>]
  /\ UNCHANGED << registryVars, user, session, consumed, result, calls, exVars, uiVars >>

\* the stream ends: send_message returns and the boundary answers
StreamEnds(t) ==
  /\ pc[t] = "run"
  /\ pc' = [pc EXCEPT ![t] = "done"]
  /\ result' = [result EXCEPT ![t] = << ResultOf(locals[t]) >>]
  /\ response' = [response EXCEPT ![t] = << OnResult(result'[t][1]) >>]
  /\ UNCHANGED << registryVars, user, session, locals, consumed, calls, exVars, uiVars >>

\* the request is over; the caller may send another
NextCall(t) ==
  /\ pc[t] \in { "done", "failed" }
  /\ calls < MaxCalls
  /\ pc' = [pc EXCEPT ![t] = "idle"]
  /\ UNCHANGED << registryVars, user, session, locals, consumed, result,
                  response, calls, exVars, uiVars >>

(***************************************************************************)
(* _extract_embedded_figures on its own                                    *)
(***************************************************************************)
ExtractOnce ==
  /\ ex_pc = "input"
  /\ ex_out' = ExtractEmbeddedFigures(ex_text)
  /\ ex_pc' = "once"
  /\ UNCHANGED << registryVars, turnVars, ex_segs, ex_text, ex_again, uiVars >>

\* the extractor on the text it returned
ExtractAgain ==
  /\ ex_pc = "once"
  /\ ex_again' = ExtractEmbeddedFigures(ex_out.text)
  /\ ex_pc' = "twice"
  /\ UNCHANGED << registryVars, turnVars, ex_segs, ex_text, ex_out, uiVars >>

(***************************************************************************)
(* _handle_message                                                         *)
(***************************************************************************)
\* `if not cleaned_message`: the inputs are returned, nothing is called
UiReturnsBlank ==
  /\ ui_pc = "input"
  /\ Cleaned(ui_message) = << >>
  /\ ui_out' = << Returned(ui_history, ui_session) >>
  /\ ui_pc' = "returned"
  /\ UNCHANGED << registryVars, turnVars, exVars, ui_message, ui_history, ui_session >>

\* line 71: send_message is awaited
UiCalls ==
  /\ ui_pc = "input"
  /\ Cleaned(ui_message) # << >>
  /\ ui_pc' = "calling"
  /\ UNCHANGED << registryVars, turnVars, exVars, ui_message, ui_history,
                  ui_session, ui_out >>

\* send_message returned: lines 73-142
UiReplies(t) ==
  /\ ui_pc = "calling"
  /\ pc[t] = "done"
  /\ \E rejected \in SUBSET UrisOf(result[t][1]) :
       ui_out' = << HandleMessage(Cleaned(ui_message), ui_history, ui_session,
                                  result[t][1], rejected) >>
  /\ ui_pc' = "returned"
  /\ UNCHANGED << registryVars, turnVars, exVars, ui_message, ui_history, ui_session >>

\* send_message raised: nothing in _handle_message catches it
UiRaises(t) ==
  /\ ui_pc = "calling"
  /\ pc[t] = "failed"
  /\ ui_pc' = "raised"
  /\ UNCHANGED << registryVars, turnVars, exVars, ui_message, ui_history,
                  ui_session, ui_out >>

(***************************************************************************)
(* Specifications                                                          *)
(***************************************************************************)
\* one turn, with every event of Events
Next ==
  \E t \in { 1 } :
     \/ \E u \in { 1 } : StartTurn(t, u)
     \/ AcquireLock(t)
     \/ CheckSession(t)
     \/ CreateReturns(t)
     \/ CreateRaises(t)
     \/ \E k \in 1..Len(Events) : \E f \in 0..Len(Events[k].delta) :
           ConsumeEvent(t, k, f)
     \/ StreamRaises(t)
     \/ StreamEnds(t)

Spec == Init /\ [][Next]_vars

\* concurrent callers of the registry; their streams carry no event
NextSession ==
  \E t \in Turns :
     \/ \E u \in Users : StartTurn(t, u)
     \/ AcquireLock(t)
     \/ CheckSession(t)
     \/ CreateReturns(t)
     \/ CreateRaises(t)
     \/ StreamRaises(t)
     \/ StreamEnds(t)
     \/ NextCall(t)

SpecSession == Init /\ [][NextSession]_vars

\* the events of the streams of concurrent turns: text with a tool call,
\* and inline data
SharedEvents == { 4, 7 }

\* the requests that are in flight together
StreamingTurns == { 1, 2 }

\* concurrent turns, each with its own stream
NextTurns ==
  \E t \in StreamingTurns :
     \/ \E u \in Users : StartTurn(t, u)
     \/ AcquireLock(t)
     \/ CheckSession(t)
     \/ CreateReturns(t)
     \/ CreateRaises(t)
     \/ \E k \in SharedEvents : ConsumeEvent(t, k, 0)
     \/ StreamRaises(t)
     \/ StreamEnds(t)

SpecTurns == Init /\ [][NextTurns]_vars

\* the event of the streams of the turns of SpecLive: text with a tool call
LiveEvents == { 4 }

\* what the scheduling gives a turn: asyncio.Lock wakes its waiters in
\* turn, so a caller that can take the lock again and again does take it;
\* an awaited create_session returns or raises; the stream yields its next
\* event, ends or raises
TurnFairness(t) ==
  /\ SF_vars(AcquireLock(t))
  /\ WF_vars(CheckSession(t))
  /\ WF_vars(CreateReturns(t) \/ CreateRaises(t))
  /\ WF_vars(StreamEnds(t) \/ StreamRaises(t)
               \/ \E k \in LiveEvents : ConsumeEvent(t, k, 0))

\* concurrent turns whose streams repeat one event, scheduled fairly
NextLive ==
  \E t \in StreamingTurns :
     \/ \E u \in Users : StartTurn(t, u)
     \/ AcquireLock(t)
     \/ CheckSession(t)
     \/ CreateReturns(t)
     \/ CreateRaises(t)
     \/ \E k \in LiveEvents : ConsumeEvent(t, k, 0)
     \/ StreamRaises(t)
     \/ StreamEnds(t)

SpecLive == Init /\ [][NextLive]_vars /\ \A t \in StreamingTurns : TurnFairness(t)

\* the extractor alone, on every text of up to MaxSegs segments
NextExtract == ExtractOnce \/ ExtractAgain

SpecExtract == InitExtract /\ [][NextExtract]_vars

\* one call of _handle_message; the turn it starts is turn 1 of the
\* service, called directly (the answer of the API boundary plays no part)
UiEvents == { 1, 2, 5, 7, 14, 15 }

NextUi ==
  \/ UiReturnsBlank
  \/ UiCalls
  \/ \E t \in { 1 } :
       \/ ui_pc = "calling" /\ StartTurn(t, ui_session)
       \/ AcquireLock(t)
       \/ CheckSession(t)
       \/ CreateReturns(t)
       \/ CreateRaises(t)
       \/ \E k \in UiEvents : ConsumeEvent(t, k, 0)
       \/ StreamRaises(t)
       \/ StreamEnds(t)
       \/ UiReplies(t)
       \/ UiRaises(t)

SpecUi == InitUi /\ [][NextUi]_vars

(***************************************************************************)
(* Properties                                                              *)
(***************************************************************************)
Named(item) == "name" \in DOMAIN item
SameKey(x, y) == Named(x) /\ Named(y) /\ x.name = y.name /\ x.data = y.data

\* the entries of a list that carry the pair (name, data)
EntriesOf(list, name, data) ==
  { i \in 1..Len(list) : Named(list[i]) /\ list[i].name = name /\ list[i].data = data }

\* src a is not after src b in the stream
NotAfter(a, b) == a.ev < b.ev \/ (a.ev = b.ev /\ a.part <= b.part)

\* C1: the artifacts list of a returned result never holds two entries with
\* the same (name, data) pair, the entries the figure extractor adds after
\* the stream included.
C1_NoDuplicatePairs ==
  \A t \in Turns :
    result[t] # << >> =>
      \A i, j \in 1..Len(result[t][1].artifacts) :
        i # j => ~SameKey(result[t][1].artifacts[i], result[t][1].artifacts[j])

\* the pairs the fragments of event e carry, each with the place of the
\* fragment: output files, inline data, fetched artifacts and the markers of
\* text fragments
FileCarries(e, ev) ==
  { [name |-> Or(e.parts[i].output_files[j].name, S_ARTIFACT),
     data |-> e.parts[i].output_files[j].content,
     src |-> Src(ev, i)] :
       << i, j >> \in { x \in (1..Len(e.parts)) \X (1..3) :
                          /\ x[2] <= Len(e.parts[x[1]].output_files)
                          /\ Truthy(e.parts[x[1]].output_files[x[2]].content) } }

InlineCarries(e, ev) ==
  { [name |-> Or(e.parts[i].inline_data[1].display_name, S_ARTIFACT),
     data |-> Normalize(e.parts[i].inline_data[1].data),
     src |-> Src(ev, i)] :
       i \in { x \in 1..Len(e.parts) : HasData(e.parts[x].inline_data) } }

FetchCarries(e, ev) ==
  { [name |-> e.delta[j][1],
     data |-> Normalize(LoadArtifact(e.delta[j][1], e.delta[j][2])[1].inline_data[1].data),
     src |-> Src(ev, Len(e.parts) + j)] :
       j \in { x \in 1..Len(e.delta) :
                 /\ ~SkipsEvent(e)
                 /\ LoadArtifact(e.delta[x][1], e.delta[x][2]) # << >>
                 /\ HasData(LoadArtifact(e.delta[x][1], e.delta[x][2])[1].inline_data) } }

MarkerCarries(e, ev) ==
  { [name |-> ExtractEmbeddedFigures(e.parts[i].text).artifacts[1].name,
     data |-> ExtractEmbeddedFigures(e.parts[i].text).artifacts[1].data,
     src |-> Src(ev, i)] :
       i \in { x \in 1..Len(e.parts) :
                 /\ Truthy(e.parts[x].text)
                 /\ ExtractEmbeddedFigures(e.parts[x].text).artifacts # << >> } }

Carries(log) ==
  UNION { FileCarries(Events[log[ev]], ev) \cup InlineCarries(Events[log[ev]], ev)
            \cup FetchCarries(Events[log[ev]], ev) \cup MarkerCarries(Events[log[ev]], ev) :
          ev \in 1..Len(log) }

\* C2: when two fragments of a turn carry the same (name, data) pair, the
\* result holds exactly one entry for the pair, and it is the entry of the
\* first of the fragments.
C2_OneEntryAtFirstOccurrence ==
  \A t \in Turns :
    result[t] # << >> =>
      \A c1, c2 \in Carries(consumed[t]) :
        (c1.name = c2.name /\ c1.data = c2.data /\ c1.src # c2.src /\ NotAfter(c1.src, c2.src))
          => /\ Cardinality(EntriesOf(result[t][1].artifacts, c1.name, c1.data)) = 1
             /\ \A i \in EntriesOf(result[t][1].artifacts, c1.name, c1.data) :
                  NotAfter([ev |-> result[t][1].artifacts[i].src.ev,
                            part |-> result[t][1].artifacts[i].src.part], c1.src)

\* (the same for the entries the loop adds, without those of the extractor:
\* this holds, so that C2 fails through the extractor's entries alone)
LoopEntriesDeduplicated ==
  \A t \in Turns :
    \A i, j \in 1..Len(locals[t].artifacts) :
      i # j => ~SameKey(locals[t].artifacts[i], locals[t].artifacts[j])

FillerSegs == { k \in 1..Len(Segments) : Len(Segments[k]) = 1 }
SEE_S == SEE_FIGURE \o << "s", "]" >>

\* C3: a text made of a well-formed marker with a valid payload
\* (FIGURE[s]: data:image/png;base64,QUJD), whatever text precedes or follows
\* it, yields exactly one artifact, of mime type image/png and data QUJD, and
\* the text with [See figure: s] in place of exactly the marker.
C3_MarkerExtractedWhateverSurrounds ==
  \A n \in 1..Len(ex_segs) :
    ( /\ ex_pc # "input"
      /\ ex_segs[n] = 1
      /\ \A k \in 1..Len(ex_segs) : k # n => ex_segs[k] \in FillerSegs )
    => /\ Len(ex_out.artifacts) = 1
       /\ ex_out.artifacts[1].mime_type = S_IMAGE_PNG
       /\ ex_out.artifacts[1].data = S_QUJD
       /\ ex_out.text = TextOf(SubSeq(ex_segs, 1, n - 1)) \o SEE_S
                          \o TextOf(SubSeq(ex_segs, n + 1, Len(ex_segs)))

\* the payload of a match, as _replace cleans it
CleanPayload(mt) == RemoveWhitespace(AfterFirst(mt.data, ","))
Matches(s) == { k \in 1..Len(s) : MatchAt(s, k).ok }
ValidMatches(s) == { k \in Matches(s) : IsValidB64(CleanPayload(MatchAt(s, k))) }

\* C4: a text all of whose markers are malformed (no payload decodes) comes
\* back unchanged, character for character, with no artifact.
C4_MalformedLeftUntouched ==
  (ex_pc # "input" /\ ValidMatches(ex_text) = {})
    => ex_out.text = ex_text /\ ex_out.artifacts = << >>

C4_Witness ==
  /\ ex_pc = "once"
  /\ Matches(ex_text) # {}
  /\ ValidMatches(ex_text) = {}
  /\ ex_out.text = ex_text

\* C5 (as stated): the extractor run on the cleaned text it returned gives
\* that text back unchanged, with no artifact, for any input text.
C5_IdempotentOnAnyInput ==
  ex_pc = "twice" => ex_again.text = ex_out.text /\ ex_again.artifacts = << >>

\* C5 (amended): the extractor run on the cleaned text it returned gives that
\* text back unchanged, with no artifact, when the cleaned text holds no
\* marker with a payload that decodes; and a text with no marker is returned
\* unchanged with no artifact.
C5_IdempotentWhenNoMarkerIsLeft ==
  /\ (ex_pc = "twice" /\ ValidMatches(ex_out.text) = {})
       => ex_again.text = ex_out.text /\ ex_again.artifacts = << >>
  /\ (ex_pc # "input" /\ Matches(ex_text) = {})
       => ex_out.text = ex_text /\ ex_out.artifacts = << >>

C5_Witness ==
  /\ ex_pc = "twice"
  /\ ex_out.artifacts # << >>
  /\ ex_out.text # ex_text
  /\ ValidMatches(ex_out.text) = {}
  /\ ex_again.text = ex_out.text

\* the text fragments of the events of log, in arrival order and, within an
\* event, in part order
EventTexts(e) ==
  [i \in 1..Len(e.parts) |-> IF Truthy(e.parts[i].text) THEN e.parts[i].text ELSE << >>]
TurnText(log) == Join([k \in 1..Len(log) |-> Join(EventTexts(Events[log[k]]))])

\* the event emits text fragments and nothing else
TextOnly(e) ==
  /\ e.delta = << >>
  /\ e.parts # << >>
  /\ \A i \in 1..Len(e.parts) : e.parts[i] = TextPart(e.parts[i].text)
TextOnlyLog(log) == \A k \in 1..Len(log) : TextOnly(Events[log[k]])
FragmentsMarkerFree(log) ==
  \A k \in 1..Len(log) : \A i \in 1..Len(Events[log[k]].parts) :
    Matches(EventTexts(Events[log[k]])[i]) = {}

PlainResult(r, log) ==
  /\ r.text = Strip(TurnText(log))
  /\ r.tool_calls = << >>
  /\ r.tool_responses = << >>
  /\ r.artifacts = << >>

JoinedInOrder(t) == ~locals[t].raised => Join(locals[t].text_chunks) = TurnText(consumed[t])

\* C6 (as stated): the text of a turn is the concatenation of its text
\* fragments in arrival order with no separator; a stream of text fragments
\* none of which holds a marker gives that concatenation, trimmed, and
\* empty tool_calls, tool_responses and artifacts.
C6_MarkerFreeFragmentsGivePlainText ==
  \A t \in Turns :
    /\ JoinedInOrder(t)
    /\ (result[t] # << >> /\ TextOnlyLog(consumed[t]) /\ FragmentsMarkerFree(consumed[t]))
         => PlainResult(result[t][1], consumed[t])

\* C6 (amended): the text of a turn is the concatenation of its text
\* fragments in arrival order with no separator; a stream of text fragments
\* whose concatenation holds no marker gives that concatenation, trimmed,
\* and empty tool_calls, tool_responses and artifacts.
C6_MarkerFreeConcatenationGivesPlainText ==
  \A t \in Turns :
    /\ JoinedInOrder(t)
    /\ (result[t] # << >> /\ TextOnlyLog(consumed[t]) /\ Matches(TurnText(consumed[t])) = {})
         => PlainResult(result[t][1], consumed[t])

C6_Witness ==
  /\ result[1] # << >>
  /\ Len(consumed[1]) >= 2
  /\ TextOnlyLog(consumed[1])
  /\ Matches(TurnText(consumed[1])) = {}
  /\ Len(locals[1].text_chunks) >= 2
  /\ result[1][1].text # << >>
  /\ Len(result[1][1].text) < Len(TurnText(consumed[1]))
  /\ PlainResult(result[1][1], consumed[1])

\* the entries of list are in the arrival order of their fragments
InArrivalOrder(list) ==
  \A i, j \in 1..Len(list) : i < j => NotAfter(list[i].src, list[j].src)

FromLoop(list) == SelectSeq(list, LAMBDA x : ~x.src.fig)
FromMarkers(list) == SelectSeq(list, LAMBDA x : x.src.fig)

\* C7 (as stated): in a result, tool_calls, tool_responses and artifacts each
\* list their entries in the arrival order of the fragments that produced
\* them, the artifacts of FIGURE markers included.
C7_AllListsInArrivalOrder ==
  \A t \in Turns :
    result[t] # << >> =>
      /\ InArrivalOrder(result[t][1].tool_calls)
      /\ InArrivalOrder(result[t][1].tool_responses)
      /\ InArrivalOrder(result[t][1].artifacts)

\* C7 (amended): in a result, tool_calls and tool_responses list their
\* entries in the arrival order of the fragments that produced them; the
\* artifacts list first holds the artifacts of output files, inline data and
\* fetches in arrival order, then the artifacts of FIGURE markers in the
\* order of the markers in the text.
C7_MarkerArtifactsComeLast ==
  \A t \in Turns :
    result[t] # << >> =>
      /\ InArrivalOrder(result[t][1].tool_calls)
      /\ InArrivalOrder(result[t][1].tool_responses)
      /\ InArrivalOrder(FromLoop(result[t][1].artifacts))
      /\ InArrivalOrder(FromMarkers(result[t][1].artifacts))
      /\ result[t][1].artifacts =
           FromLoop(result[t][1].artifacts) \o FromMarkers(result[t][1].artifacts)
      /\ FromLoop(result[t][1].artifacts) = locals[t].artifacts

C7_Witness ==
  /\ result[1] # << >>
  /\ result[1][1].tool_calls # << >>
  /\ \E i, j \in 1..Len(result[1][1].artifacts) :
       /\ i < j
       /\ ~result[1][1].artifacts[i].src.fig
       /\ result[1][1].artifacts[j].src.fig
       /\ result[1][1].artifacts[j].src.ev < result[1][1].artifacts[i].src.ev

\* C8: when the stream, a fetch or the loop body raises, after any number
\* of events, the boundary answers with the one generic failure, which
\* holds none of the text, tool calls, tool responses or artifacts
\* collected, and send_message returns nothing; a ChatResponse is answered
\* only by a turn whose stream ended without error.
C8_AllOrNothing ==
  \A t \in Turns :
    /\ locals[t].raised =>
         /\ pc[t] = "failed"
         /\ response[t] = << ServiceFailure >>
         /\ result[t] = << >>
    /\ (response[t] # << >> /\ response[t][1].status = 200) =>
         /\ pc[t] = "done"
         /\ ~locals[t].raised
         /\ result[t] # << >>
    /\ (response[t] # << >> /\ response[t][1].status # 200) =>
         DOMAIN response[t][1] = { "status", "detail" }

C8_Witness ==
  /\ pc[1] = "failed"
  /\ locals[1].raised
  /\ Len(consumed[1]) >= 2
  /\ locals[1].text_chunks # << >>
  /\ locals[1].artifacts # << >>
  /\ locals[1].tool_calls # << >>
  /\ response[1] = << ServiceFailure >>

\* C9: every _ensure_session call of a user_id returns the handle the first
\* successful call of that user_id returned; a bound handle is never
\* replaced or removed, and create_session succeeds at most once per
\* user_id.
C9_OneSessionPerUser ==
  /\ \A p \in returned : p[2] = first[p[1]] /\ p[2] # 0
  /\ \A u \in Users :
       /\ created[u] <= 1
       /\ first[u] # 0 => sessions[u] = first[u]
       /\ first[u] = 0 => sessions[u] = 0 /\ created[u] = 0
  /\ \A t \in Turns :
       pc[t] \in { "run", "done" } => session[t] = first[user[t]] /\ session[t] # 0

C9_Witness ==
  \E t1, t2 \in Turns :
    /\ t1 # t2
    /\ pc[t1] = "done"
    /\ pc[t2] = "run"
    /\ ~raced[t2]
    /\ user[t1] = user[t2]
    /\ session[t2] = session[t1]
    /\ session[t2] = first[user[t2]]
    /\ created[user[t2]] = 1
    /\ calls >= 3

InCheckThenCreate == { t \in Turns : pc[t] \in { "locked", "creating" } }

\* C10: of the _ensure_session calls of one unregistered user_id that run
\* concurrently, exactly one creates a session and all return its handle;
\* the check-then-create steps of two calls never interleave.
C10_CheckThenCreateSerialized ==
  /\ Cardinality(InCheckThenCreate) <= 1
  /\ \A t \in Turns : t \in InCheckThenCreate <=> lock = t
  /\ \A t \in Turns :
       (raced[t] /\ pc[t] \in { "run", "done" }) =>
         /\ created[user[t]] = 1
         /\ session[t] = sessions[user[t]]
         /\ \A x \in Turns :
              (user[x] = user[t] /\ pc[x] \in { "run", "done" }) => session[x] = session[t]

C10_Witness ==
  \E t1, t2 \in Turns :
    /\ t1 # t2
    /\ user[t1] = user[t2]
    /\ raced[t2]
    /\ ~raced[t1]
    /\ pc[t1] \in { "run", "done" }
    /\ pc[t2] \in { "run", "done" }
    /\ session[t1] = session[t2]
    /\ session[t2] # 0
    /\ created[user[t2]] = 1

\* strictly earlier place in the stream
Before(a, b) == a.ev < b.ev \/ (a.ev = b.ev /\ a.part < b.part)

\* what the delta items of the events of log hold in the store: the pair
\* (filename, converted data) of every item whose part carries inline data,
\* whether or not the event has content
DeltaCarries(log) ==
  { [name |-> Events[log[ev]].delta[j][1],
     data |-> Normalize(LoadArtifact(Events[log[ev]].delta[j][1],
                                     Events[log[ev]].delta[j][2])[1].inline_data[1].data)] :
      << ev, j >> \in
        { x \in (1..Len(log)) \X (1..3) :
            /\ x[2] <= Len(Events[log[x[1]]].delta)
            /\ LoadArtifact(Events[log[x[1]]].delta[x[2]][1],
                            Events[log[x[1]]].delta[x[2]][2]) # << >>
            /\ HasData(LoadArtifact(Events[log[x[1]]].delta[x[2]][1],
                                    Events[log[x[1]]].delta[x[2]][2])[1].inline_data) } }

\* C11: for every event of a turn with a non-empty artifact_delta, with or
\* without content, every filename of the delta whose stored part carries
\* inline data has an artifact of that name and data in the result.
C11_EveryDeltaFetched ==
  \A t \in Turns :
    result[t] # << >> =>
      \A c \in DeltaCarries(consumed[t]) :
        EntriesOf(result[t][1].artifacts, c.name, c.data) # {}

\* (the same for the events that have content: this holds)
DeltaOfContentEventsFetched ==
  \A t \in Turns :
    result[t] # << >> =>
      \A c \in UNION { FetchCarries(Events[consumed[t][ev]], ev) : ev \in 1..Len(consumed[t]) } :
        EntriesOf(result[t][1].artifacts, c.name, c.data) # {}

\* the pairs the loop's channels (output files, inline data, fetches) carry
LoopCarries(log) ==
  UNION { FileCarries(Events[log[ev]], ev) \cup InlineCarries(Events[log[ev]], ev)
            \cup FetchCarries(Events[log[ev]], ev) : ev \in 1..Len(log) }
InlineFragments(log) ==
  UNION { InlineCarries(Events[log[ev]], ev) : ev \in 1..Len(log) }
SeenBefore(c, log) ==
  \E d \in LoopCarries(log) : d.name = c.name /\ d.data = c.data /\ Before(d.src, c.src)
EntriesFrom(list, src) == { k \in 1..Len(list) : list[k].src = src }

\* C12: an inline-data fragment contributes exactly one entry to the
\* artifacts list, with name, mime_type and base64 data, when its (name,
\* data) key was not seen before in the turn, and no entry when it was.
C12_OneEntryPerInlineFragment ==
  \A t \in Turns :
    result[t] # << >> =>
      \A c \in InlineFragments(consumed[t]) :
        IF SeenBefore(c, consumed[t])
          THEN EntriesFrom(result[t][1].artifacts, c.src) = {}
          ELSE /\ Cardinality(EntriesFrom(result[t][1].artifacts, c.src)) = 1
               /\ \A k \in EntriesFrom(result[t][1].artifacts, c.src) :
                    /\ ValidArtifact(result[t][1].artifacts[k])
                    /\ result[t][1].artifacts[k].name = c.name
                    /\ result[t][1].artifacts[k].data = c.data

\* (the same for the named entries alone: this holds)
OneNamedEntryPerInlineFragment ==
  \A t \in Turns :
    result[t] # << >> =>
      \A c \in InlineFragments(consumed[t]) :
        Cardinality({ k \in EntriesFrom(result[t][1].artifacts, c.src) :
                        Named(result[t][1].artifacts[k]) })
          = IF SeenBefore(c, consumed[t]) THEN 0 ELSE 1

\* C13: every entry of a returned artifacts list has name, mime_type and
\* data, and the boundary answers every result send_message returns with
\* the ChatResponse made of it.
C13_EveryResultAnswered ==
  \A t \in Turns :
    result[t] # << >> =>
      /\ \A k \in 1..Len(result[t][1].artifacts) : ValidArtifact(result[t][1].artifacts[k])
      /\ response[t] # << >>
      /\ response[t][1].status = 200
      /\ response[t][1].text = result[t][1].text
      /\ Len(response[t][1].artifacts) = Len(result[t][1].artifacts)

\* the delta items of event e for which the store returns nothing
MissingItems(e) ==
  { j \in 1..Len(e.delta) : LoadArtifact(e.delta[j][1], e.delta[j][2]) = << >> }
StoredItems(e) ==
  { j \in 1..Len(e.delta) :
      /\ LoadArtifact(e.delta[j][1], e.delta[j][2]) # << >>
      /\ HasData(LoadArtifact(e.delta[j][1], e.delta[j][2])[1].inline_data) }
MissingEvents == { k \in 1..Len(Events) : ~SkipsEvent(Events[k]) /\ MissingItems(Events[k]) # {} }

\* C14: a fetch that returns nothing for a filename does not fail the
\* turn: the filename contributes no artifact, the other filenames of the
\* delta and the later events are processed, and the turn returns its
\* result.
C14_MissingArtifactSkipped ==
  \A t \in Turns :
    /\ pc[t] \in { "run", "done" } =>
         /\ \A ev \in 1..Len(consumed[t]) :
              ~SkipsEvent(Events[consumed[t][ev]]) =>
                /\ \A j \in MissingItems(Events[consumed[t][ev]]) :
                     /\ EntriesFrom(locals[t].artifacts,
                                    Src(ev, Len(Events[consumed[t][ev]].parts) + j)) = {}
                     /\ \A k \in 1..Len(locals[t].artifacts) :
                          Named(locals[t].artifacts[k]) =>
                            locals[t].artifacts[k].name # Events[consumed[t][ev]].delta[j][1]
                /\ \A j \in StoredItems(Events[consumed[t][ev]]) :
                     \E k \in 1..Len(locals[t].artifacts) :
                       /\ Named(locals[t].artifacts[k])
                       /\ locals[t].artifacts[k].name = Events[consumed[t][ev]].delta[j][1]
                       /\ NotAfter(locals[t].artifacts[k].src,
                                   Src(ev, Len(Events[consumed[t][ev]].parts) + j))
         /\ Join(locals[t].text_chunks) = TurnText(consumed[t])
    /\ (pc[t] = "run" /\ Len(consumed[t]) < MaxEvents) =>
         \A k \in MissingEvents :
           ProcessEvent(locals[t], Events[k], Len(consumed[t]) + 1, 0).raised
             = ProcessParts(locals[t], Events[k].parts, 1, Len(consumed[t]) + 1).raised
    /\ pc[t] = "done" => result[t] # << >> /\ result[t][1].text = ResultOf(locals[t]).text

C14_Witness ==
  /\ pc[1] = "done"
  /\ response[1] # << >>
  /\ response[1][1].status = 200
  /\ \E i \in 1..Len(consumed[1]) :
       /\ i < Len(consumed[1])
       /\ consumed[1][i] \in MissingEvents
       /\ StoredItems(Events[consumed[1][i]]) # {}
       /\ \E j \in StoredItems(Events[consumed[1][i]]) :
            /\ \E m \in MissingItems(Events[consumed[1][i]]) : m < j
            /\ EntriesFrom(result[1][1].artifacts,
                           Src(i, Len(Events[consumed[1][i]].parts) + j)) # {}
       /\ Truthy(Events[consumed[1][i + 1]].parts[1].text)
       /\ Len(result[1][1].text) >= 2

\* the entries of list that hold the payload data under the name, or under
\* no name
PayloadEntries(list, name, data) ==
  { k \in 1..Len(list) : list[k].data = data /\ (Named(list[k]) => list[k].name = name) }

\* C15: a payload that surfaces in one turn through more than one of the
\* channels (inline data, artifact-delta fetch, output file) under one
\* (name, data) key is held once by the result's artifacts list.
C15_PayloadOnceAcrossChannels ==
  \A t \in Turns :
    result[t] # << >> =>
      \A c1, c2 \in LoopCarries(consumed[t]) :
        (c1.name = c2.name /\ c1.data = c2.data /\ c1.src # c2.src)
          => Cardinality(PayloadEntries(result[t][1].artifacts, c1.name, c1.data)) = 1

\* the title of the match that yielded the k-th artifact of the extraction
\* out of text, trimmed; figure when there is none
TitleOfArtifact(text, out, k) ==
  LET title == MatchAt(text, out.starts[k]).title
  IN IF title = None \/ Strip(title) = << >> THEN DEFAULT_TITLE ELSE Strip(title)

Unsafe(s) == { i \in 1..Len(s) : s[i] \notin SafeClass }
EachReplaced(s) == [i \in 1..Len(s) |-> IF i \in Unsafe(s) THEN "_" ELSE s[i]]
\* the places of s that stay when a run counts once: the safe characters
\* and the first character of every run of unsafe ones
RunHeads(s) == { i \in 1..Len(s) : i \notin Unsafe(s) \/ i = 1 \/ (i - 1) \notin Unsafe(s) }
NthOf(S, j) == CHOOSE i \in S : Cardinality({ x \in S : x <= i }) = j
RunsReplaced(s) ==
  [j \in 1..Cardinality(RunHeads(s)) |-> EachReplaced(s)[NthOf(RunHeads(s), j)]]

EndsInPng(s) ==
  /\ Len(s) >= 4
  /\ s[Len(s) - 3] = "."
  /\ s[Len(s) - 2] \in { "p", "P" }
  /\ s[Len(s) - 1] \in { "n", "N" }
  /\ s[Len(s)] \in { "g", "G" }
WithPng(s) == IF EndsInPng(s) THEN s ELSE s \o << ".", "p", "n", "g" >>

\* C16 (as stated): the name of an artifact is its marker's title with
\* each single character outside [A-Za-z0-9._-] replaced by one underscore,
\* figure for no title, and .png appended unless the name ends in it; the
\* display_name is the title.
C16_OneUnderscorePerCharacter ==
  ex_pc # "input" =>
    \A k \in 1..Len(ex_out.artifacts) :
      /\ ex_out.artifacts[k].name = WithPng(EachReplaced(TitleOfArtifact(ex_text, ex_out, k)))
      /\ ex_out.artifacts[k].display_name = TitleOfArtifact(ex_text, ex_out, k)

\* C16 (amended): the name of an artifact is its marker's title, trimmed,
\* with each maximal run of characters outside [A-Za-z0-9._-] replaced by
\* one underscore, figure for no title or a blank one, and .png appended
\* unless the name ends in it in any letter case; the display_name is the
\* trimmed title.
C16_OneUnderscorePerRun ==
  ex_pc # "input" =>
    \A k \in 1..Len(ex_out.artifacts) :
      /\ ex_out.artifacts[k].name = WithPng(RunsReplaced(TitleOfArtifact(ex_text, ex_out, k)))
      /\ ex_out.artifacts[k].display_name = TitleOfArtifact(ex_text, ex_out, k)

C16_Witness ==
  /\ ex_pc = "once"
  /\ \E k \in 1..Len(ex_out.artifacts) :
       /\ \E i \in Unsafe(TitleOfArtifact(ex_text, ex_out, k)) :
            (i + 1) \in Unsafe(TitleOfArtifact(ex_text, ex_out, k))
       /\ EndsInPng(TitleOfArtifact(ex_text, ex_out, k))
       /\ Len(ex_out.artifacts[k].name) < Len(TitleOfArtifact(ex_text, ex_out, k))

RECURSIVE Scanned(_, _)
\* where the matches re.sub finds in s from index i on begin: the leftmost
\* match, then the leftmost one after its end, and so on
Scanned(s, i) ==
  IF { k \in i..Len(s) : MatchAt(s, k).ok } = {} THEN {}
  ELSE { MinOf({ k \in i..Len(s) : MatchAt(s, k).ok }) }
         \cup Scanned(s, MatchAt(s, MinOf({ k \in i..Len(s) : MatchAt(s, k).ok })).end + 1)

ValidAt(s, k) == IsValidB64(CleanPayload(MatchAt(s, k)))
\* the title the reference to the match at k shows
ShownAt(s, k) ==
  IF MatchAt(s, k).title = None \/ Strip(MatchAt(s, k).title) = << >>
    THEN DEFAULT_TITLE ELSE Strip(MatchAt(s, k).title)
ReferenceAt(s, k) == << "[","S","e","e"," ","f","i","g","u","r","e",":"," " >> \o ShownAt(s, k) \o << "]" >>
MatchLen(s, k) == MatchAt(s, k).end - k + 1
\* by how much the replacement of the match at k lengthens the text
GrowthAt(s, k) == IF ValidAt(s, k) THEN Len(ReferenceAt(s, k)) - MatchLen(s, k) ELSE 0

RECURSIVE Growth(_, _)
Growth(s, S) ==
  IF S = {} THEN 0
  ELSE GrowthAt(s, MinOf(S)) + Growth(s, S \ { MinOf(S) })
\* where the match at k of s begins in the output
Moved(s, k) == k + Growth(s, { m \in Scanned(s, 1) : m < k })

\* C17: the extractor returns for every text; of the matches of a text,
\* each one whose payload does not decode stays verbatim in the output
\* and yields no artifact, and each one whose payload decodes is replaced
\* by its reference and yields its artifact.
C17_ValidReplacedMalformedKept ==
  ex_pc # "input" =>
    /\ ex_out.text # None
    /\ Len(ex_out.text) = Len(ex_text) + Growth(ex_text, Scanned(ex_text, 1))
    /\ Len(ex_out.artifacts) = Cardinality({ k \in Scanned(ex_text, 1) : ValidAt(ex_text, k) })
    /\ \A k \in Scanned(ex_text, 1) :
         IF ValidAt(ex_text, k)
           THEN /\ SubSeq(ex_out.text, Moved(ex_text, k),
                          Moved(ex_text, k) + Len(ReferenceAt(ex_text, k)) - 1)
                     = ReferenceAt(ex_text, k)
                /\ \E j \in 1..Len(ex_out.artifacts) :
                     /\ ex_out.starts[j] = k
                     /\ ex_out.artifacts[j].data = CleanPayload(MatchAt(ex_text, k))
           ELSE /\ SubSeq(ex_out.text, Moved(ex_text, k),
                          Moved(ex_text, k) + MatchLen(ex_text, k) - 1)
                     = SubSeq(ex_text, k, MatchAt(ex_text, k).end)
                /\ \A j \in 1..Len(ex_out.artifacts) : ex_out.starts[j] # k

C17_Witness ==
  /\ ex_pc = "once"
  /\ \E k1, k2 \in Scanned(ex_text, 1) :
       /\ k1 < k2
       /\ ValidAt(ex_text, k1)
       /\ ~ValidAt(ex_text, k2)
       /\ Len(ex_out.artifacts) = 1
       /\ ex_out.text # ex_text

\* C18 (as stated): the lock is held only during the check-then-create
\* step; in every state where some turn is in its stream loop the lock is
\* free.
C18_LockFreeWhileAnyTurnStreams ==
  (\E t \in Turns : pc[t] = "run") => lock = 0

\* C18 (amended): the lock is held only during the check-then-create step
\* of _ensure_session: a turn that is in its stream loop, or past it, never
\* holds the lock, and when no call is in its check-then-create step a
\* caller that waits for the lock can take it, whatever turns are in
\* flight.
C18_NoStreamingTurnHoldsLock ==
  /\ \A t \in Turns : pc[t] \notin { "locked", "creating" } => lock # t
  /\ lock # 0 => lock \in Turns /\ pc[lock] \in { "locked", "creating" }
  /\ \A t \in Turns :
       (pc[t] = "wait_lock" /\ InCheckThenCreate = {}) => ENABLED AcquireLock(t)

C18_Witness ==
  \E t1, t2 \in Turns :
    /\ pc[t1] = "run"
    /\ user[t1] # user[t2]
    /\ pc[t2] = "locked"
    /\ lock = t2
    /\ sessions[user[t2]] = 0

RECURSIVE Alone(_, _, _)
\* the locals of a turn that consumes the events of log from the k-th on,
\* with nothing else running
Alone(L, log, k) ==
  IF k > Len(log) \/ L.raised THEN L
  ELSE Alone(ProcessEvent(L, Events[log[k]], k, 0), log, k + 1)

\* C19: the text buffer, the tool lists, the artifact list and the set of
\* seen keys belong to one call of send_message: whatever the interleaving
\* of concurrent turns, each turn holds and returns exactly what its own
\* stream produces, and a key seen in one turn does not suppress the
\* artifact in another.
C19_TurnsIsolated ==
  \A t \in Turns :
    /\ pc[t] \in { "run", "done" } => locals[t] = Alone(Locals0, consumed[t], 1)
    /\ pc[t] = "failed" =>
         locals[t] = [Alone(Locals0, consumed[t], 1) EXCEPT !.raised = TRUE]
    /\ result[t] # << >> => result[t][1] = ResultOf(Alone(Locals0, consumed[t], 1))

C19_Witness ==
  \E t1, t2 \in Turns :
    /\ t1 # t2
    /\ user[t1] = user[t2]
    /\ pc[t1] = "run"
    /\ pc[t2] = "done"
    /\ Len(consumed[t1]) >= 2
    /\ EntriesOf(locals[t1].artifacts, S_PNG_NAME, S_QUJD) # {}
    /\ EntriesOf(result[t2][1].artifacts, S_PNG_NAME, S_QUJD) # {}
    /\ locals[t1].tool_calls # << >>
    /\ result[t2][1].tool_calls = << >>

Finished(t) == pc[t] \in { "done", "failed" }

\* how a turn has finished: with the result of all the events of its
\* stream, or failed with no result
FinishedOneWay(t) ==
  /\ pc[t] = "done" =>
       /\ ~locals[t].raised
       /\ result[t] = << ResultOf(Alone(Locals0, consumed[t], 1)) >>
  /\ pc[t] = "failed" => locals[t].raised /\ result[t] = << >>
  /\ ~Finished(t) => result[t] = << >>

\* a finished turn stays as it is: nothing is consumed after the result
StaysFinished(t) ==
  Finished(t) => /\ pc'[t] = pc[t]
                 /\ consumed'[t] = consumed[t]
                 /\ result'[t] = result[t]

\* C20: every turn finishes in exactly one of two ways, with a result
\* that reflects all the events of its stream or with a failure, and under
\* fair scheduling every started turn does finish and no caller waits for
\* the registry lock forever.
C20_EveryTurnFinishes ==
  /\ [](\A t \in StreamingTurns : FinishedOneWay(t))
  /\ [][\A t \in StreamingTurns : StaysFinished(t)]_vars
  /\ \A t \in StreamingTurns : (pc[t] = "wait_lock") ~> (pc[t] = "locked")
  /\ \A t \in StreamingTurns : (pc[t] # "idle") ~> Finished(t)

C20_Witness ==
  \E t1, t2 \in StreamingTurns :
    /\ pc[t1] = "done"
    /\ raced[t1]
    /\ Len(consumed[t1]) >= 2
    /\ result[t1] # << >>
    /\ pc[t2] = "failed"
    /\ Len(consumed[t2]) >= 1


\* how many references [See figure: ...] a text holds
References(s) == Cardinality({ i \in 1..Len(s) : HasLit(s, i, SEE_FIGURE) })

\* C21: the artifact list of the extractor holds one artifact per replaced
\* marker, in the left-to-right order of those markers in the input, and
\* is as long as the number of references the call inserted.
C21_OneArtifactPerReplacedMarkerInOrder ==
  ex_pc # "input" =>
    /\ Len(ex_out.starts) = Len(ex_out.artifacts)
    /\ \A j, k \in 1..Len(ex_out.artifacts) :
         j < k => ex_out.starts[j] < ex_out.starts[k]
    /\ \A j \in 1..Len(ex_out.artifacts) :
         /\ ex_out.starts[j] \in Scanned(ex_text, 1)
         /\ ValidAt(ex_text, ex_out.starts[j])
         /\ ex_out.artifacts[j].data = CleanPayload(MatchAt(ex_text, ex_out.starts[j]))
         /\ ex_out.artifacts[j].display_name = ShownAt(ex_text, ex_out.starts[j])
    /\ Len(ex_out.artifacts) = References(ex_out.text) - References(ex_text)

\* two markers with different titles were replaced in one text
C21_Witness ==
  /\ ex_pc # "input"
  /\ Len(ex_out.artifacts) >= 2
  /\ ex_out.artifacts[1].display_name # ex_out.artifacts[2].display_name
  /\ References(ex_out.text) = 2


\* the turn's create_session raised (no session was ever bound to it)
FailedCreating(t) == pc[t] = "failed" /\ session[t] = 0 /\ consumed[t] = << >>

\* C23: when create_session raises inside _ensure_session the registry is
\* left as it was, with no entry for the user, and the lock is released;
\* a later call that finds no entry creates again; the registry never
\* holds an entry that no successful creation wrote.
C23_FailedCreationLeavesNoTrace ==
  /\ [](\A u \in Users :
          sessions[u] # 0 => created[u] >= 1 /\ sessions[u] = first[u])
  /\ [](\A t \in Turns : pc[t] = "failed" => lock # t)
  /\ [][\A t \in Turns :
          /\ (pc[t] = "creating" /\ pc'[t] = "failed") =>
               /\ sessions' = sessions
               /\ sessions[user[t]] = 0
               /\ lock = t
               /\ lock' = 0
          /\ (pc[t] = "locked" /\ pc'[t] # "locked" /\ sessions[user[t]] = 0) =>
               pc'[t] = "creating"
          /\ (pc[t] = "wait_lock" /\ pc'[t] = "locked") => lock = 0
       ]_vars

\* a creation failed for a user, and a later call for the same user
\* created the session and went on
C23_Witness ==
  \E t1, t2 \in Turns :
    /\ t1 # t2
    /\ FailedCreating(t1)
    /\ user[t2] = user[t1]
    /\ pc[t2] = "run"
    /\ created[user[t2]] = 1
    /\ session[t2] = sessions[user[t2]]
    /\ lock = 0


\* what the call of _handle_message returned, and the messages it added
UiHistory == ui_out[1].history
Added == { k \in 1..Len(UiHistory) : k > Len(ui_history) }
ImagesAdded == { k \in Added : UiHistory[k].kind = "image" }
\* the reply text shown to the user
ShownReply == UiHistory[Len(ui_history) + 2].content
Contains(s, lit) == \E i \in 1..Len(s) : HasLit(s, i, lit)

\* the text send_message returned, and the markers it left in place
\* because their payload does not decode
ServiceText == result[1][1].text
KeptMarkers == { k \in Scanned(ServiceText, 1) : ~ValidAt(ServiceText, k) }

\* C22: through the chat UI a malformed figure marker in the agent's text
\* is not fatal, stays untouched in the reply text shown to the user and
\* gives no image message: the UI's extraction does not rewrite a marker
\* the service left in place.
C22_MalformedMarkerUntouchedInUi ==
  (ui_pc = "returned" /\ pc[1] = "done") =>
    \A k \in KeptMarkers :
      /\ Contains(ShownReply, SubSeq(ServiceText, k, MatchAt(ServiceText, k).end))
      /\ \A m \in ImagesAdded :
           UiHistory[m].content # RemoveWhitespace(MatchAt(ServiceText, k).data)

\* None, empty, or whitespace only
IsBlank(m) == m = None \/ \A k \in 1..Len(m) : m[k] \in Whitespace

\* C24: the history _handle_message returns has the input history as an
\* unchanged prefix and the session id is the one given; for a blank
\* message the history is the input history and the agent is not called;
\* for any other message that completes, the input history is followed by
\* one user message holding the trimmed message, then the text reply, then
\* image messages only.
C24_HistoryExtended ==
  /\ ui_pc \in { "calling", "raised" } => ui_out = << >>
  /\ ui_pc = "returned" =>
       /\ ui_out[1].session_id = ui_session
       /\ ui_out[1].textbox = << >>
       /\ Len(UiHistory) >= Len(ui_history)
       /\ SubSeq(UiHistory, 1, Len(ui_history)) = ui_history
       /\ IF IsBlank(ui_message)
            THEN /\ UiHistory = ui_history
                 /\ calls = 0
                 /\ pc[1] = "idle"
            ELSE /\ pc[1] = "done"
                 /\ Len(UiHistory) >= Len(ui_history) + 2
                 /\ UiHistory[Len(ui_history) + 1] = TextMessage("user", Strip(ui_message))
                 /\ UiHistory[Len(ui_history) + 2].role = "assistant"
                 /\ UiHistory[Len(ui_history) + 2].kind = "text"
                 /\ UiHistory[Len(ui_history) + 2].content # << >>
                 /\ \A k \in Added :
                      k > Len(ui_history) + 2 =>
                        /\ UiHistory[k].role = "assistant"
                        /\ UiHistory[k].kind = "image"

\* a message with blanks around it was answered, after a history, by a
\* text reply and two images
C24_Witness ==
  /\ ui_pc = "returned"
  /\ ~IsBlank(ui_message)
  /\ Strip(ui_message) # ui_message
  /\ ui_history # << >>
  /\ Cardinality(ImagesAdded) >= 2
  /\ Len(UiHistory) = Len(ui_history) + 4
====
